---- MODULE Spec2Model ----
(***************************************************************************)
(* A model of the sitecrawler engine: the asyncio crawl scheduler          *)
(* (aiocrawler.py), the caching crawler and its scope filter               *)
(* (sitecrawler.py), the LMDB document store (lmdb_collection.py) and the  *)
(* extraction pass (sitecrawler.py, do_extraction).                        *)
(*                                                                         *)
(* asyncio runs the workers cooperatively: a worker runs without           *)
(* interruption from one await that really suspends to the next.  The      *)
(* queue is unbounded, so task_queue.put never suspends, and               *)
(* task_queue.get suspends only on an empty queue.  A worker therefore     *)
(* has two atomic sections per message: from the return of get() to the    *)
(* network await (WorkerGet), and from the network's answer to task_done   *)
(* (WorkerFetched).                                                        *)
(***************************************************************************)
EXTENDS Integers, Sequences, FiniteSets, TLC

VARIABLES
    \* ---- SiteCrawler / AsyncCrawler configuration (constructor arguments)
    starting_urls,      \* sequence of seed URLs
    max_depth,
    max_pages,
    concurrency,
    cache_ttl_hours,
    extraction_rules,   \* the rule list (a sequence of rules)
    ai_parsing,         \* "True", or "unset" when __init__ never assigned the attribute
    allowed_domains,    \* set of strings
    allowed_regex,      \* sequence of patterns
    denied_regex,       \* sequence of patterns (user list + global_excludes)
    denied_extensions,  \* sequence of character sequences
    start_time,
    \* ---- crawl state
    crawled_urls,       \* the seen set
    task_queue,         \* asyncio.Queue contents, FIFO
    unfinished,         \* asyncio.Queue._unfinished_tasks
    wpc,                \* per worker: "none", "idle", "fetching", "ended", "cancelled"
    wtask,              \* per worker: the message being processed
    stats,              \* Counter
    session,            \* "none", "open", "closed"
    dpc,                \* driver: "new", "joining", "done", "exited"
    end_time,           \* -1, or time.time() at crawl_completed()
    \* ---- the Store (one LMDB file per crawl name, kept across crawls)
    db,                 \* URL -> record (JSON values)
    blobs,              \* URL -> value stored at URL^bytes
    map_size,           \* the size of the LMDB map, in units of the opening size
    autogrow,           \* whether __setitem__ grows the map when it is full
    \* ---- environment
    long_urls,          \* URLs whose key is longer than LMDB's key limit
    blob_long_urls,     \* URLs within the limit whose key url^bytes is beyond it
    net_errors,         \* the failures the network can answer with
    may_exhaust,        \* whether the Store's map can fill up beyond growing
    \* ---- bookkeeping for the properties (not program state)
    fetches,            \* URL -> number of network fetches issued in this crawl
    handled,            \* messages that were claimed in this crawl
    last_op,            \* what the last step did
    \* ---- the scope filter on its own
    allow_starting_url_hostname,  \* constructor argument (kept for the properties)
    allow_starting_url_tld,       \* constructor argument (kept for the properties)
    arg_allowed_domains,          \* constructor argument allowed_domains
    vl_link,            \* the candidate link valid_link is applied to
    vl_result,          \* <<>> before the call, then <<TRUE>> or <<FALSE>>
    \* ---- a function of the program applied on its own
    op_args,            \* the call: which function, and its arguments
    op_result,          \* <<>> before the call, then <<the result>>
    \* ---- the start_crawl tasks of one crawl name (tasks.py)
    lock_file,          \* <<>> when absent, or <<the task whose pid the file holds>>
    tpc                 \* where each task is in start_crawl

configVars == <<starting_urls, max_depth, max_pages, concurrency, cache_ttl_hours,
                extraction_rules, ai_parsing, start_time>>
envVars    == <<long_urls, blob_long_urls, net_errors, may_exhaust, map_size, autogrow>>
scopeVars  == <<allowed_domains, allowed_regex, denied_regex, denied_extensions>>
crawlVars  == <<crawled_urls, task_queue, unfinished, wpc, wtask, stats, session, dpc,
                end_time>>
storeVars  == <<db, blobs>>
ghostVars  == <<fetches, handled, last_op>>
linkVars   == <<allow_starting_url_hostname, allow_starting_url_tld, arg_allowed_domains,
                vl_link, vl_result>>
callVars   == <<op_args, op_result>>
taskVars   == <<lock_file, tpc>>
vars == <<configVars, scopeVars, crawlVars, storeVars, envVars, ghostVars, linkVars,
          callVars, taskVars>>

-----------------------------------------------------------------------------
(* Bounds of the model. *)

NumWorkers == 2
NumTasks == 3
MaxCrawls  == 2

None == "None"

NoCall == [op |-> "none"]

\* the start_crawl tasks submitted for one crawl name
Tasks == 1..NumTasks

-----------------------------------------------------------------------------
(* URLs.  A URL is a name in UrlTable; its entry gives what                *)
(* tldextract.extract returns for it (subdomain, domain, suffix) and the   *)
(* characters that follow the host.  Text(u) is the URL as a string, one   *)
(* character per element, which is what the regular expressions, the '@'   *)
(* test and endswith look at.                                              *)

CharsOf ==
    [www |-> <<"w", "w", "w">>, foo |-> <<"f", "o", "o">>, ex |-> <<"e", "x">>,
     g |-> <<"g">>, com |-> <<"c", "o", "m">>]

Url(sub, domain, suffix, tail) ==
    [sub |-> sub, domain |-> domain, suffix |-> suffix, tail |-> tail]

UrlTable ==
    [ \* the site that is crawled
      a       |-> Url("www", "ex", "com", <<"/", "a">>),
      b       |-> Url("www", "ex", "com", <<"/", "b">>),
      c       |-> Url("www", "ex", "com", <<"/", "c", ".", "p", "d", "f">>),
      x       |-> Url("", "g", "com", <<"/", "x">>),
      \* a page whose URL carries a percent-escape, and that URL decoded
      p       |-> Url("www", "ex", "com", <<"/", "%", "2", "0">>),
      q       |-> Url("www", "ex", "com", <<"/", " ">>),
      \* pages that reach one page over paths of different lengths
      d       |-> Url("www", "ex", "com", <<"/", "d">>),
      e       |-> Url("www", "ex", "com", <<"/", "e">>),
      f       |-> Url("www", "ex", "com", <<"/", "f">>),
      g       |-> Url("www", "ex", "com", <<"/", "g">>),
      \* seeds and candidate links for the scope filter
      root    |-> Url("", "ex", "com", <<>>),
      html    |-> Url("www", "ex", "com", <<"/", "i", ".", "h", "t", "m", "l">>),
      htmls   |-> Url("www", "ex", "com", <<"/", "i", ".", "h", "t", "m", "l", "s">>),
      css     |-> Url("www", "ex", "com", <<"/", "i", ".", "c", "s", "s">>),
      JS      |-> Url("www", "ex", "com", <<"/", "i", ".", "J", "S">>),
      mp3     |-> Url("www", "ex", "com", <<"/", "i", ".", "m", "p", "3">>),
      at      |-> Url("www", "ex", "com", <<"/", "@", "i", ".", "h", "t", "m", "l">>),
      bare    |-> Url("", "ex", "com", <<"/", "i", ".", "h", "t", "m", "l">>),
      sibling |-> Url("foo", "ex", "com", <<"/", "i", ".", "h", "t", "m", "l">>),
      foreign |-> Url("", "g", "com", <<"/", "i", ".", "h", "t", "m", "l">>),
      fcss    |-> Url("", "g", "com", <<"/", "i", ".", "c", "s", "s">>) ]

Label(s) == IF s = "" THEN <<>> ELSE CharsOf[s]

Text(u) ==
    LET e == UrlTable[u]
    IN  <<"h", "t", "t", "p", "s", ":", "/", "/">>
        \o (IF e.sub = "" THEN <<>> ELSE Label(e.sub) \o <<".">>)
        \o Label(e.domain) \o <<".">> \o Label(e.suffix) \o e.tail

-----------------------------------------------------------------------------
(* Regular expressions, as far as the crawl settings use them: a sequence  *)
(* of literal characters and '.' wildcards, optionally anchored by '$'.    *)
(* re.findall(s, link, re.IGNORECASE) is truthy iff s matches somewhere.   *)

AnyChar == "ANY"

Pattern(toks, atEnd) == [toks |-> toks, atEnd |-> atEnd]

Lower(ch) ==
    CASE ch = "J" -> "j"
      [] ch = "S" -> "s"
      [] ch = "H" -> "h"
      [] OTHER -> ch

MatchAt(pat, text, i) ==
    /\ i + Len(pat.toks) - 1 <= Len(text)
    /\ \A j \in 1..Len(pat.toks) :
          pat.toks[j] = AnyChar \/ Lower(pat.toks[j]) = Lower(text[i + j - 1])
    /\ pat.atEnd => i + Len(pat.toks) - 1 = Len(text)

findall(pat, text) == {i \in 1..Len(text) : MatchAt(pat, text, i)}

endswith(text, suffix) ==
    /\ Len(suffix) <= Len(text)
    /\ SubSeq(text, Len(text) - Len(suffix) + 1, Len(text)) = suffix

\* sitecrawler.py:33, as a list (list(global_excludes))
global_excludes ==
    << Pattern(<<".", "j", "p", "g">>, FALSE),
       Pattern(<<".", "j", "p", "e", "g">>, FALSE),
       Pattern(<<".", "p", "n", "g">>, FALSE),
       Pattern(<<".", "m", "p", "4">>, FALSE),
       Pattern(<<".", "w", "e", "b", "p">>, FALSE),
       Pattern(<<".", "g", "i", "f">>, FALSE),
       Pattern(<<".", "c", "s", "s">>, FALSE),
       Pattern(<<".", "j", "s">>, FALSE) >>

-----------------------------------------------------------------------------
(* Scope filter (sitecrawler.py).                                          *)

\* tldextract.extract (external library): the three parts of the host
tldextract(url) ==
    [subdomain |-> UrlTable[url].sub, domain |-> UrlTable[url].domain,
     suffix |-> UrlTable[url].suffix]

parse_tld(url) ==
    LET link_tld == tldextract(url)
        tld      == link_tld.domain \o "." \o link_tld.suffix
    IN  <<link_tld.subdomain \o "." \o tld, tld>>

\* a variant with the two flags exchanged
SeedAllowedDomainsSwapped(seeds, domains, hostname_flag, tld_flag) ==
    domains
    \cup {parse_tld(seeds[i])[1] : i \in {j \in 1..Len(seeds) : tld_flag}}
    \cup {parse_tld(seeds[i])[2] : i \in {j \in 1..Len(seeds) : hostname_flag}}

\* SiteCrawler.__init__, lines 152-157: allowed_domains after the constructor ran
SeedAllowedDomains(seeds, domains, hostname_flag, tld_flag) ==
    domains
    \cup {parse_tld(seeds[i])[1] : i \in {j \in 1..Len(seeds) : hostname_flag}}
    \cup {parse_tld(seeds[i])[2] : i \in {j \in 1..Len(seeds) : tld_flag}}

\* a variant in which a non-empty allow list that does not match rejects (the
\* return that is commented out at line 303)
valid_link_allow_only(source_url, link) ==
    LET subdomain == parse_tld(link)[1]
        tld       == parse_tld(link)[2]
        text      == Text(link)
        included  == \E i \in 1..Len(allowed_regex) : findall(allowed_regex[i], text) # {}
        excluded  == \E i \in 1..Len(denied_regex) : findall(denied_regex[i], text) # {}
        ext       == \E i \in 1..Len(denied_extensions) : endswith(text, denied_extensions[i])
    IN  IF subdomain \notin allowed_domains /\ tld \notin allowed_domains THEN FALSE
        ELSE IF \E i \in 1..Len(text) : text[i] = "@" THEN FALSE
        ELSE IF included THEN TRUE
        ELSE IF excluded THEN FALSE
        ELSE IF ext THEN FALSE
        ELSE Len(allowed_regex) = 0

valid_link(source_url, link) ==
    LET subdomain == parse_tld(link)[1]
        tld       == parse_tld(link)[2]
        text      == Text(link)
        included  == \E i \in 1..Len(allowed_regex) : findall(allowed_regex[i], text) # {}
        excluded  == \E i \in 1..Len(denied_regex) : findall(denied_regex[i], text) # {}
        ext       == \E i \in 1..Len(denied_extensions) : endswith(text, denied_extensions[i])
    IN  IF subdomain \notin allowed_domains /\ tld \notin allowed_domains THEN FALSE
        ELSE IF \E i \in 1..Len(text) : text[i] = "@" THEN FALSE
        ELSE IF included THEN TRUE
        ELSE IF excluded THEN FALSE
        ELSE IF ext THEN FALSE
        ELSE TRUE

-----------------------------------------------------------------------------
(* The site being crawled (environment).                                   *)

Urls == {"a", "b", "c", "x", "p", "q", "d", "e", "f", "g"}

\* the href attributes of the anchors of each page (after urljoin/urldefrag)
Hrefs(page) ==
    CASE page = "a" -> {"b", "c", "x"}
      [] page = "b" -> {"a", "c"}
      [] page = "d" -> {"f"}
      [] page = "e" -> {"g"}
      [] page = "f" -> {"g"}
      [] page = "g" -> {"c"}
      [] OTHER -> {}

\* the Content-Type header each URL is served with
ServedType(url) ==
    CASE url = "a" -> "text/html"
      [] url = "b" -> "application/xhtml+xml"
      [] url = "c" -> "application/pdf"
      [] OTHER -> "text/html"

\* where a request may end after redirects
FinalUrls(url) == IF url = "b" THEN {"b", "c"} ELSE {url}

\* response.url.human_repr() (aiocrawler.py:106): the URL with its
\* percent-escapes decoded
human_repr(url) == IF url = "p" THEN "q" ELSE url

LastModifieds == {None, "lm1"}

html_content_types ==
    {"text/html", "text/xhtml", "application/xhtml+xml", "application/xhtml",
     "application/html"}

binary_content_types ==
    {"application/pdf",
     "application/vnd.openxmlformats-officedocument.presentationml.presentation",
     "application/vnd.openxmlformats-officedocument.wordprocessingml.document",
     "application/epub+zip"}

\* what the server may answer to a GET of url
ErrorKinds ==
    {"TooManyRedirects", "ClientPayloadError", "TimeoutError", "ClientResponseError",
     "ClientConnectionError", "Exception"}

Response(kind, content_type, actual_url, lm, status) ==
    [kind |-> kind, content_type |-> content_type, actual_url |-> actual_url,
     lm |-> lm, status |-> status]

Responses(url, errors) ==
    {Response("ok", ServedType(f), human_repr(f), lm, 200) :
        f \in FinalUrls(url), lm \in LastModifieds}
    \cup {Response("ok", "image/png", url, None, 200)}
    \cup {Response(k, None, url, None, 0) : k \in errors \ {"ClientResponseError"}}
    \cup {Response("ClientResponseError", None, url, None, st) :
             st \in {s \in {404, 500} : "ClientResponseError" \in errors}}

Body(content_type, url) ==
    IF content_type = "text/html" THEN <<"html", url>> ELSE <<"bytes", url>>

-----------------------------------------------------------------------------
(* The Store (lmdb_collection.py).  The LMDB file maps URL to a JSON       *)
(* record (db) and URL^bytes to raw bytes (blobs).  A handler's writes are *)
(* threaded through a record st = [db, blobs, stats, fuel, status]:        *)
(*   status  "ok"      the handler is still running;                       *)
(*           "raised"  an exception is propagating;                        *)
(*           "exit"    __setitem__ called exit() (SystemExit propagates);  *)
(*   fuel    the number of writes that still succeed before the map is     *)
(*           full beyond growing (a negative fuel: never).                 *)

\* LmdbmDocumentCollection.__init__: JsonLmdb.open(file, mode, map_size=2 ** 30),
\* with lmdbm's autogrow=True; map_size counts in units of 2 ** 30 bytes
InitialMapSize == 1

Absent == [type |-> "absent"]
NoBlob == [bytes |-> None]

\* time.time() at a write of the running crawl: later than start_time
Now == start_time + 1

St(d, bl, s, fuel) == [db |-> d, blobs |-> bl, stats |-> s, fuel |-> fuel, status |-> "ok"]

Burn(fuel) == IF fuel > 0 THEN fuel - 1 ELSE fuel

\* json.dumps(value): the text of a JSON object, a name and a JSON value per
\* field.  The values the crawler stores (str, float, None) are written as
\* JSON strings, numbers and null.
_pre_value(value) == [f \in DOMAIN value |-> <<"json", value[f]>>]

\* json.loads(text): JSON strings, numbers and null read back as str, float
\* and None
_post_value(text) == [f \in DOMAIN text |-> text[f][2]]

\* JsonLmdb.__setitem__ for a record key.  txn.put raises BadValsizeError
\* (not a MapFullError) for a key longer than LMDB's limit; after 12
\* MapFullErrors the process exits.  db holds each record as __getitem__
\* decodes it.
setitem(st, key, value) ==
    IF st.status # "ok" THEN st
    ELSE IF key \in long_urls THEN [st EXCEPT !.status = "raised"]
    ELSE IF st.fuel = 0 THEN [st EXCEPT !.status = "exit"]
    ELSE [st EXCEPT !.db[key] = _post_value(_pre_value(value)), !.fuel = Burn(@)]

\* JsonLmdb.__getitem__: KeyError when txn.get finds nothing
getitem(d, key) ==
    IF d[key].type = "absent" THEN [raised |-> TRUE, value |-> Absent]
    ELSE [raised |-> FALSE, value |-> d[key]]

\* JsonLmdb.__setitem__ for the key url + "^bytes"
setitem_bytes(st, key, value) ==
    IF st.status # "ok" THEN st
    ELSE IF key \in long_urls \cup blob_long_urls THEN [st EXCEPT !.status = "raised"]
    ELSE IF st.fuel = 0 THEN [st EXCEPT !.status = "exit"]
    ELSE [st EXCEPT !.blobs[key] = value, !.fuel = Burn(@)]

\* a variant that writes the record with a fingerprint instead of ""
ContentRecordStamped(content_type, content, crawled, server_last_modified) ==
    [type |-> "content", parsed_hash |-> <<0>>,
     crawled |-> crawled, server_last_modified |-> server_last_modified,
     _content |-> content, content_type |-> content_type, fields |-> <<>>]

ContentRecord(content_type, content, crawled, server_last_modified) ==
    [type |-> "content", parsed_hash |-> <<>>, crawled |-> crawled,
     server_last_modified |-> server_last_modified, _content |-> content,
     content_type |-> content_type, fields |-> <<>>]

add_html_once(st, key, content, crawled, server_last_modified) ==
    IF st.db[key].type # "absent" THEN st
    ELSE setitem(st, key, ContentRecord("text/html", content, crawled, server_last_modified))

add_html(st, key, content, crawled, server_last_modified) ==
    setitem(st, key, ContentRecord("text/html", content, crawled, server_last_modified))

\* the blob carries, for the properties only, the fetch result it was written for
Blob(content, crawled, server_last_modified) ==
    [bytes |-> content, of |-> <<crawled, server_last_modified>>]

add_binary(st, key, content, content_type, crawled, server_last_modified) ==
    setitem_bytes(
        setitem(st, key,
                ContentRecord(content_type, <<"N/A">>, crawled, server_last_modified)),
        key, Blob(content, crawled, server_last_modified))

-----------------------------------------------------------------------------
(* SiteCrawler: caching, redirects, error records, Output.                 *)

\* a variant of Output's else branch that never writes over a cache hit
SameOrNoLastModified(lm, stored) == TRUE

\* output, line 353: "server_last_modified and cached[...] != server_last_modified"
\* is false
LastModifiedUnchanged(lm, stored) == ~ (lm # None /\ stored # lm)

Inc(s, key) == [s EXCEPT ![key] = @ + 1]

is_cached_url_inclusive(d, url) ==
    LET is_cached == d[url].type = "content"
    IN  IF is_cached /\ cache_ttl_hours > -1
        THEN ~ ((start_time - d[url].crawled) > cache_ttl_hours)
        ELSE is_cached

\* ages are whole hours here, so /3600 is already applied
is_cached_url(d, url) ==
    LET is_cached == d[url].type = "content"
    IN  IF is_cached /\ cache_ttl_hours > -1
        THEN ~ ((start_time - d[url].crawled) >= cache_ttl_hours)
        ELSE is_cached

is_redirected_url(d, url) == d[url].type = "redirect"

get_redirected_url(d, url) == d[url].redirected_url

\* a _make_request that leaves out line 256
save_redirect_skipped(st, source_url, redirected_url) == st

save_redirect(st, source_url, redirected_url) ==
    setitem(st, source_url, [type |-> "redirect", redirected_url |-> redirected_url])

\* the Counter key and error_code of an HTTP error is the integer status; the
\* model writes it as its numeral
StatusTag(status) == IF status > 499 THEN "500" ELSE "404"

log_error_url(st, url, error_code) ==
    IF st.status # "ok" THEN st
    ELSE setitem([st EXCEPT !.stats = Inc(@, error_code)], url,
                 [type |-> "error", error_code |-> error_code,
                  _content |-> "error_message"])

\* output's two write branches are the same call
Save(st, content_type, url, content, lm) ==
    IF content_type = "text/html"
    THEN add_html([st EXCEPT !.stats = Inc(@, "new_or_updated")], url, content, Now, lm)
    ELSE add_binary([st EXCEPT !.stats = Inc(@, "new_or_updated")], url, content,
                    content_type, Now, lm)

\* try ... except Exception: print("Error saving")
Swallow(st) == IF st.status = "raised" THEN [st EXCEPT !.status = "ok"] ELSE st

output(st, content_type, url, content, lm) ==
    IF st.status # "ok" THEN st
    ELSE IF ~ is_cached_url(st.db, url)
         THEN Swallow(Save(st, content_type, url, content, lm))
         ELSE IF ~ LastModifiedUnchanged(lm, st.db[url].server_last_modified)
              THEN Swallow(Save(st, content_type, url, content, lm))
              ELSE st

\* a variant that keeps every href, in scope or not
extract_links_all(url, html) == Hrefs(html[2])

extract_links(url, html) ==
    {l \in Hrefs(html[2]) : valid_link(url, l)}

-----------------------------------------------------------------------------
(* AsyncCrawler: the worker loop and the driver (aiocrawler.py).           *)

Workers == 1..NumWorkers

StatKeys ==
    {"total", "cached", "cached_redirects", "fetched", "new_or_updated",
     "too_many_redirects", "invalid_encoding", "timeout", "404", "500",
     "connection_error", "exception"}

ZeroStats == [k \in StatKeys |-> 0]

\* a message that counts its first delivery as a retry
TaskQueueMessageRetried(source_url, url, depth, retry_count) ==
    [source_url |-> source_url, url |-> url, depth |-> depth,
     retry_count |-> retry_count + 1]

TaskQueueMessage(source_url, url, depth, retry_count) ==
    [source_url |-> source_url, url |-> url, depth |-> depth, retry_count |-> retry_count]

NoTask == TaskQueueMessage(None, None, 0, 0)

\* the orders in which a set may be iterated
Orders(S) == {q \in [1..Cardinality(S) -> S] : {q[i] : i \in 1..Cardinality(S)} = S}

\* "response.url in self.crawled_urls" (aiocrawler.py:110): response.url is a
\* yarl.URL and crawled_urls holds str; a URL neither equals nor hashes like
\* a str, so the test is False for every response.
url_object_in(actual_url, seen) == FALSE

\* a worker without the two "pass" clauses: every exception is logged
CaughtAndLogged(st, task, kind, status) == log_error_url(st, task.url, "exception")

\* the except clauses of worker(), lines 196-217; st is the state at the raise
Caught(st, task, kind, status) ==
    CASE kind \in {"InvalidContentTypeError", "AlreadyFetchedError"} -> st
      [] kind = "TooManyRedirects" -> log_error_url(st, task.url, "too_many_redirects")
      [] kind = "ClientPayloadError" -> log_error_url(st, task.url, "invalid_encoding")
      [] kind = "TimeoutError" -> log_error_url(st, task.url, "timeout")
      [] kind = "ClientResponseError" -> log_error_url(st, task.url, StatusTag(status))
      [] kind = "ClientConnectionError" -> log_error_url(st, task.url, "connection_error")
      [] OTHER -> log_error_url(st, task.url, "exception")

Handled(st, links, source) == [st |-> st, links |-> links, source |-> source]

\* the else: clause of worker(), lines 219-226, after crawl_page returned
\* (content_type, url, links, content, headers); seen is crawled_urls
Succeeded(st, seen, content_type, url, content, lm) ==
    LET links == IF content_type = "text/html" THEN extract_links(url, content) ELSE {}
        st1   == output(st, content_type, url, content, lm)
    IN  Handled(st1, IF st1.status = "ok" THEN links \ seen ELSE {}, url)

\* SiteCrawler._make_request up to the network await, lines 229-251, and what
\* follows in worker() when the answer comes from the Store.  "fetch" means
\* the request goes to the network.
FromStore(st, seen, task) ==
    LET url == task.url
        st0 == [st EXCEPT !.stats = Inc(@, "total")]
    IN  IF is_cached_url(st.db, url)
        THEN LET cached == st.db[url]
             IN  Succeeded([st0 EXCEPT !.stats = Inc(@, "cached")], seen,
                           cached.content_type, url, cached._content,
                           cached.server_last_modified)
        ELSE IF is_redirected_url(st.db, url)
        THEN LET actual_url == get_redirected_url(st.db, url)
                 cached     == st.db[actual_url]
                 st1        == [st0 EXCEPT !.stats = Inc(@, "cached_redirects")]
             IN  IF cached.type # "content"
                 \* KeyError: no record at actual_url, or one without
                 \* server_last_modified (an error or a redirect record)
                 THEN Handled(Caught(st1, task, "KeyError", 0), {}, None)
                 ELSE Succeeded(st1, seen, cached.content_type, actual_url,
                                cached._content, cached.server_last_modified)
        ELSE Handled([st0 EXCEPT !.stats = Inc(@, "fetched"), !.status = "fetch"], {}, None)

\* AsyncCrawler._make_request after the response arrived (lines 106-120), the
\* rest of SiteCrawler._make_request (lines 253-257) and of worker()
FromNetwork(st, seen, task, resp) ==
    LET url == task.url
        actual_url == resp.actual_url
    IN  IF resp.kind # "ok" THEN Handled(Caught(st, task, resp.kind, resp.status), {}, None)
        ELSE IF actual_url # url /\ url_object_in(actual_url, seen)
        THEN Handled(Caught(st, task, "AlreadyFetchedError", 0), {}, None)
        ELSE IF resp.content_type \notin html_content_types \cup binary_content_types
        THEN Handled(Caught(st, task, "InvalidContentTypeError", 0), {}, None)
        ELSE LET content_type == IF resp.content_type \in html_content_types
                                 THEN "text/html" ELSE resp.content_type
                 content == Body(content_type, actual_url)
                 st1 == IF url # actual_url THEN save_redirect(st, url, actual_url) ELSE st
             IN  IF st1.status = "raised"
                 THEN Handled(Caught([st1 EXCEPT !.status = "ok"], task, "lmdb.Error", 0),
                              {}, None)
                 ELSE Succeeded(st1, seen, content_type, actual_url, content, resp.lm)

-----------------------------------------------------------------------------
(* Extraction (sitecrawler.py): rules, fingerprint, do_extract,            *)
(* do_extraction.                                                          *)

\* the fields of an ExtractionRule that do_extract reads (delimiter is read
\* nowhere)
ExtractionRule(field_name, css, regex, attribute, fixed_value, default_value) ==
    [field_name |-> field_name, css |-> css, regex |-> regex, attribute |-> attribute,
     fixed_value |-> fixed_value, default_value |-> default_value]

RuleTitle  == ExtractionRule("title", "title", None, None, None, None)
RuleDesc   == ExtractionRule("desc", "bar", None, None, None, "n/a")
RuleAnimal == ExtractionRule("animal", None, "<animal>(.*?)</animal>", None, None, None)
RuleSite   == ExtractionRule("site", None, None, None, "ex", None)

\* the rule lists the crawl settings may carry
RuleSets == { <<>>, <<RuleTitle>>, <<RuleTitle, RuleAnimal>>, <<RuleSite, RuleDesc>> }

\* the width of the fingerprint in bits: xxh32 has 32, the model scales it
\* down with the rule lists, keeping fewer fingerprints than rule lists
HashBits == 1

RECURSIVE Pow2(_)
Pow2(n) == IF n = 0 THEN 1 ELSE 2 * Pow2(n - 1)

\* model_dump_json of a rule, as a number
RuleJson(r) ==
    (CASE r.field_name = "title" -> 1 [] r.field_name = "desc" -> 2
       [] r.field_name = "animal" -> 3 [] r.field_name = "site" -> 4 [] OTHER -> 5)
    + (IF r.css # None THEN 7 ELSE 0) + (IF r.regex # None THEN 11 ELSE 0)
    + (IF r.fixed_value # None THEN 13 ELSE 0) + (IF r.default_value # None THEN 17 ELSE 0)
    + (IF r.attribute # None THEN 19 ELSE 0)

RECURSIVE Digest(_, _)
Digest(rules, n) ==
    IF n = 0 THEN Len(rules) + 1
    ELSE (Digest(rules, n - 1) * 31 + RuleJson(rules[n])) % Pow2(HashBits)

\* ExtractionRules.compute_hash: a hash of the ordered rule list, HashBits wide
compute_hash(rules) == Digest(rules, Len(rules)) % Pow2(HashBits)

\* Python truthiness of an optional string
Truthy(x) == x # None /\ x # ""

\* str.strip() on the strings of the model's pages
strip(x) ==
    CASE x = " foo " -> "foo"
      [] x = " bar " -> "bar"
      [] x = " cat " -> "cat"
      [] x = " pic " -> "pic"
      [] OTHER -> x

\* a selectolax Node: its text and its attributes dictionary
Node(text, attributes) == [text |-> text, attributes |-> attributes]

NoAttributes == [n \in {} |-> None]

\* the pages of the model, as HTMLParser sees them after dom_cleaner:
\*   a   <title>foo</title> <animal> cat </animal> <animal>dog</animal>
\*       <img alt=" pic ">
\*   b   <title>foo</title> <title> bar </title> <img> <img alt>
\*   any other content (the "N/A" of a binary record included) has none of
\*   these nodes
\* dom.css(selector): the matching nodes in document order
CssNodes(content, selector) ==
    IF content[1] # "html" THEN <<>>
    ELSE IF selector = "title"
         THEN (IF content[2] = "b"
               THEN <<Node("foo", NoAttributes), Node(" bar ", NoAttributes)>>
               ELSE IF content[2] = "a" THEN <<Node(" foo ", NoAttributes)>>
               ELSE <<>>)
    ELSE IF selector = "img"
         THEN (IF content[2] = "a" THEN <<Node("", [n \in {"alt"} |-> " pic "])>>
               ELSE IF content[2] = "b"
               THEN <<Node("", NoAttributes), Node("", [n \in {"alt"} |-> None])>>
               ELSE <<>>)
    ELSE <<>>

\* re.findall(pattern, content): the captured group of each match, in order
RegexGroups(content, pattern) ==
    IF pattern = "<animal>(.*?)</animal>" /\ content[1] = "html" /\ content[2] = "a"
    THEN <<" cat ", "dog">> ELSE <<>>

\* an extracted value: a str, or a list of str
Scalar(x) == [kind |-> "str", v |-> <<x>>]
List(xs) == [kind |-> "list", v |-> xs]

\* _extract_content raises KeyError when the node lacks the rule's attribute,
\* AttributeError (None.strip()) when the attribute has no value
ExtractContentRaises(node, rule) ==
    /\ Truthy(rule.attribute)
    /\ \/ rule.attribute \notin DOMAIN node.attributes
       \/ node.attributes[rule.attribute] = None

_extract_content(node, rule) ==
    IF Truthy(rule.attribute) THEN strip(node.attributes[rule.attribute])
    ELSE strip(node.text)

Extracted(raised, result) == [raised |-> raised, result |-> result]

LastMatch(matches) == matches[Len(matches)]

\* matches[0], line 398
FirstMatch(matches) == matches[1]

Assign(result, field_name, value) ==
    [f \in DOMAIN result \cup {field_name} |->
        IF f = field_name THEN value ELSE result[f]]

\* the body of do_extract's loop for one rule, lines 386-402
ExtractRule(content, r, result) ==
    LET nodes   == CssNodes(content, r.css)
        matches == RegexGroups(content, r.regex)
        fill(res) == IF r.field_name \in DOMAIN res THEN res
                     ELSE Assign(res, r.field_name, Scalar(""))
    IN  IF Truthy(r.css)
        THEN IF Len(nodes) = 0
             THEN Extracted(FALSE, fill(IF Truthy(r.default_value)
                                        THEN Assign(result, r.field_name,
                                                    Scalar(r.default_value))
                                        ELSE result))
             ELSE IF \E i \in 1..Len(nodes) : ExtractContentRaises(nodes[i], r)
             THEN Extracted(TRUE, result)
             ELSE IF Len(nodes) = 1
             THEN Extracted(FALSE, Assign(result, r.field_name,
                                          Scalar(_extract_content(nodes[1], r))))
             ELSE Extracted(FALSE, Assign(result, r.field_name,
                      List([i \in 1..Len(nodes) |-> _extract_content(nodes[i], r)])))
        ELSE IF Truthy(r.regex)
        THEN Extracted(FALSE, fill(IF Len(matches) > 0
                                   THEN Assign(result, r.field_name,
                                               Scalar(strip(FirstMatch(matches))))
                                   ELSE result))
        ELSE IF Truthy(r.fixed_value)
        THEN Extracted(FALSE, Assign(result, r.field_name, Scalar(r.fixed_value)))
        ELSE Extracted(FALSE, fill(result))

RECURSIVE ExtractRules(_, _, _, _)
ExtractRules(content, rules, i, result) ==
    IF i > Len(rules) THEN Extracted(FALSE, result)
    ELSE LET e == ExtractRule(content, rules[i], result)
         IN  IF e.raised THEN e ELSE ExtractRules(content, rules, i + 1, e.result)

FieldNames(rules) == {rules[i].field_name : i \in 1..Len(rules)}

\* do_extract(content, rules): the result dictionary, or raised
do_extract(content, rules) == ExtractRules(content, rules, 1, NoAttributes)

\* the keys of the Store in LMDB's order (byte order of the URL)
KeyOrder == <<"x", "q", "p", "a", "b", "c", "d", "e", "f", "g">>

UrlFields(k) ==
    [f \in {"uri", "path_s", "typeUrl_s", "id"} |-> Scalar(f \o ":" \o k)]

\* _extract_binary_content: the answer of the external extractor
BinaryFields(k, answer) ==
    IF answer = "200" THEN [f \in {"content", "title"} |-> Scalar("text:" \o f \o ":" \o k)]
    ELSE NoAttributes

\* the loop of do_extraction, lines 461-490, from the i-th key on.  px is what
\* the external binary-text extractor does in this pass ("200", "500" or
\* "raise"); the result is the Store state and the article requests.
RECURSIVE ExtractLoop(_, _, _, _, _)
ExtractLoop(st, i, reqs, parsed_hash, px) ==
    IF i > Len(KeyOrder) \/ st.status # "ok" THEN [st |-> st, reqs |-> reqs]
    ELSE
      LET k == KeyOrder[i]
          v == st.db[k]
      IN  IF ~ (v.type = "content" /\ v.parsed_hash # <<parsed_hash>>)
          THEN ExtractLoop(st, i + 1, reqs, parsed_hash, px)
          ELSE
            LET extracted == do_extract(v._content, extraction_rules)
                result == UrlFields(k) @@ extracted.result
                is_html == v.content_type = "text/html"
            IN  IF extracted.raised
                THEN [st |-> [st EXCEPT !.status = "raised"], reqs |-> reqs]
                ELSE IF is_html /\ ai_parsing = "unset"
                \* AttributeError: 'SiteCrawler' object has no attribute 'ai_parsing'
                THEN [st |-> [st EXCEPT !.status = "raised"], reqs |-> reqs]
                ELSE IF ~ is_html /\ (st.blobs[k] = NoBlob \/ px = "raise")
                \* get_binary raises KeyError, or requests.post raises
                THEN [st |-> [st EXCEPT !.status = "raised"], reqs |-> reqs]
                ELSE
                  LET merged == IF is_html THEN result
                                ELSE BinaryFields(k, px) @@ result
                      v1 == [v EXCEPT !.fields = merged @@ @,
                                      !.parsed_hash = <<parsed_hash>>]
                  IN  ExtractLoop(setitem(st, k, v1), i + 1,
                                  IF is_html THEN reqs \cup {k} ELSE reqs,
                                  parsed_hash, px)

\* _do_ai_parsing and the merge loop, lines 492-500, for the answered requests
ArticleFields(k) ==
    [f \in {"uri", "title", "content"} |-> Scalar("article:" \o f \o ":" \o k)]

RECURSIVE MergeArticles(_, _, _)
MergeArticles(st, i, answered) ==
    IF i > Len(KeyOrder) \/ st.status # "ok" THEN st
    ELSE LET k == KeyOrder[i]
         IN  IF k \notin answered THEN MergeArticles(st, i + 1, answered)
             ELSE MergeArticles(
                     setitem(st, k, [st.db[k] EXCEPT !.fields = ArticleFields(k) @@ @]),
                     i + 1, answered)

\* do_extraction(crawler); the result's status tells how the call ended:
\* "skipped" (no rules), "ok" (returned), "raised", "exit"
do_extraction(st, px, answers) ==
    IF Len(extraction_rules) = 0 THEN [st EXCEPT !.status = "skipped"]
    ELSE
      LET r == ExtractLoop(st, 1, {}, compute_hash(extraction_rules), px)
      IN  IF r.st.status # "ok" THEN r.st
          ELSE IF ai_parsing = "unset" THEN [r.st EXCEPT !.status = "raised"]
          ELSE MergeArticles(r.st, 1, r.reqs \cap answers)

-----------------------------------------------------------------------------
(* Actions of a crawl.                                                     *)

ZeroFetches == [u \in Urls |-> 0]

\* the writes that succeed before the map is full for good
Fuels == IF may_exhaust THEN {-1, 0, 1, 2} ELSE {-1}

\* exit() in JsonLmdb.__setitem__: SystemExit is no Exception, it passes the
\* except clauses of output() and worker() and ends the process.  The Store
\* keeps what was written; the crawler object is gone.
ProcessExit(st) ==
    /\ db' = st.db
    /\ blobs' = st.blobs
    /\ crawled_urls' = {}
    /\ task_queue' = <<>>
    /\ unfinished' = 0
    /\ wpc' = [w \in Workers |-> "none"]
    /\ wtask' = [w \in Workers |-> NoTask]
    /\ stats' = ZeroStats
    /\ session' = "none"
    /\ dpc' = "exited"
    /\ end_time' = end_time
    /\ fetches' = ZeroFetches
    /\ handled' = {}
    /\ last_op' = <<"exit", None, 0>>

\* a path of the loop that leaves out task_done()
task_done_skipped(n) == n

\* asyncio.Queue.task_done(), on the count of unfinished tasks
task_done(n) == n - 1

\* the end of a handler: enqueue the new links, task_done() in the finally
\* clause; an exception that escaped the except clauses ends the worker
Finish(w, task, q, seen, h, opname, nfetch, nhandled) ==
    IF h.st.status = "exit" THEN ProcessExit(h.st)
    ELSE \E order \in Orders(h.links) :
            /\ db' = h.st.db
            /\ blobs' = h.st.blobs
            /\ stats' = h.st.stats
            /\ crawled_urls' = seen
            /\ task_queue' = q \o [i \in 1..Len(order) |->
                                     TaskQueueMessage(h.source, order[i], task.depth + 1, 0)]
            /\ unfinished' = task_done(unfinished + Len(order))
            /\ wpc' = [wpc EXCEPT ![w] = IF h.st.status = "raised" THEN "ended" ELSE "idle"]
            /\ wtask' = [wtask EXCEPT ![w] = NoTask]
            /\ fetches' = nfetch
            /\ handled' = nhandled
            /\ last_op' = <<opname, task.url, task.depth>>
            /\ UNCHANGED <<session, dpc, end_time>>

\* variants of the discard tests, used to show that the properties below
\* depend on them
DepthReachedLate(task) == task.depth > max_depth

AlreadyCrawledIgnored(task, seen) == FALSE

MaxPagesReachedLate(seen) == max_pages > 0 /\ Cardinality(seen) > max_pages + 1

\* worker(), line 182: the two tests of the first discard
DepthReached(task) == task.depth >= max_depth

AlreadyCrawled(task, seen) == task.url \in seen

\* worker(), line 187
MaxPagesReached(seen) == max_pages > 0 /\ Cardinality(seen) > max_pages

\* crawl(), lines 240-246
StartCrawl ==
    /\ dpc = "new"
    /\ task_queue' = [i \in 1..Len(starting_urls) |->
                        TaskQueueMessage(starting_urls[i], starting_urls[i], 0, 0)]
    /\ unfinished' = Len(starting_urls)
    /\ wpc' = [w \in Workers |-> IF w <= concurrency THEN "idle" ELSE "none"]
    /\ dpc' = "joining"
    /\ end_time' = end_time
    /\ last_op' = <<"start", None, 0>>
    /\ UNCHANGED <<crawled_urls, wtask, stats, session, fetches, handled>>
    /\ UNCHANGED <<configVars, scopeVars, storeVars, envVars, linkVars, callVars, taskVars>>

\* AsyncCrawler._make_request, lines 91-92: "if not self.session:
\* self.session = ClientSession()", with no await between the two
lazy_session(s) == IF s = "none" THEN "open" ELSE s

\* a crawl() that leaves out lines 253-254
session_left(s) == s

\* crawl(), lines 253-254: "if self.session: await self.session.close()"
close_session(s) == IF s = "open" THEN "closed" ELSE s

\* worker(), lines 179-193, then SiteCrawler._make_request up to the await
WorkerGet(w) ==
    /\ dpc = "joining"
    /\ wpc[w] = "idle"
    /\ task_queue # <<>>
    /\ LET task == Head(task_queue)
           q    == Tail(task_queue)
           seen == crawled_urls \cup {task.url}
       IN  IF \/ DepthReached(task) \/ AlreadyCrawled(task, crawled_urls)
              \/ MaxPagesReached(crawled_urls)
           THEN /\ task_queue' = q
                /\ unfinished' = task_done(unfinished)
                /\ last_op' = <<"discard", task.url, task.depth>>
                /\ UNCHANGED <<crawled_urls, wpc, wtask, stats, session, dpc, end_time>>
                /\ UNCHANGED <<storeVars, fetches, handled>>
           ELSE \E fuel \in Fuels :
                LET h == FromStore(St(db, blobs, stats, fuel), seen, task)
                IN  IF h.st.status = "fetch"
                    THEN /\ task_queue' = q
                         /\ crawled_urls' = seen
                         /\ stats' = h.st.stats
                         /\ wpc' = [wpc EXCEPT ![w] = "fetching"]
                         /\ wtask' = [wtask EXCEPT ![w] = task]
                         /\ session' = lazy_session(session)
                         /\ fetches' = [fetches EXCEPT ![task.url] = @ + 1]
                         /\ handled' = handled \cup {<<task.url, task.depth>>}
                         /\ last_op' = <<"fetch", task.url, task.depth>>
                         /\ UNCHANGED <<unfinished, dpc, end_time, storeVars>>
                    ELSE Finish(w, task, q, seen, h, "stored", fetches,
                                handled \cup {<<task.url, task.depth>>})
    /\ UNCHANGED <<configVars, scopeVars, envVars, linkVars, callVars, taskVars>>

\* the network answered: the rest of _make_request and of the loop body
WorkerFetched(w) ==
    /\ dpc = "joining"
    /\ wpc[w] = "fetching"
    /\ \E resp \in Responses(wtask[w].url, net_errors), fuel \in Fuels :
          Finish(w, wtask[w], task_queue, crawled_urls,
                 FromNetwork(St(db, blobs, stats, fuel), crawled_urls, wtask[w], resp),
                 "fetched", fetches, handled)
    /\ UNCHANGED <<configVars, scopeVars, envVars, linkVars, callVars, taskVars>>

\* AsyncCrawler.crawl_completed, lines 233-234: "pass"
crawl_completed_base(end) == end

\* SiteCrawler.crawl_completed, lines 367-369: self.end_time = time.time()
crawl_completed(end) == Now

\* crawl(), lines 246-254: join() returned
JoinReturn ==
    /\ dpc = "joining"
    /\ unfinished = 0
    /\ wpc' = [w \in Workers |-> IF wpc[w] \in {"idle", "fetching"} THEN "cancelled"
                                 ELSE wpc[w]]
    /\ session' = close_session(session)
    /\ dpc' = "done"
    /\ end_time' = crawl_completed(end_time)
    /\ last_op' = <<"join", None, 0>>
    /\ UNCHANGED <<crawled_urls, task_queue, unfinished, wtask, stats, fetches, handled>>
    /\ UNCHANGED <<configVars, scopeVars, storeVars, envVars, linkVars, callVars, taskVars>>

\* a later crawl over the same Store: a new SiteCrawler, a later start_time
NewCrawlWith(rules, ai) ==
    /\ dpc \in {"done", "exited"}
    /\ start_time + 1 < MaxCrawls
    /\ start_time' = start_time + 1
    /\ extraction_rules' = rules
    /\ ai_parsing' = ai
    /\ crawled_urls' = {}
    /\ task_queue' = <<>>
    /\ unfinished' = 0
    /\ wpc' = [w \in Workers |-> "none"]
    /\ wtask' = [w \in Workers |-> NoTask]
    /\ stats' = ZeroStats
    /\ session' = "none"
    /\ dpc' = "new"
    /\ end_time' = -1
    /\ fetches' = ZeroFetches
    /\ handled' = {}
    /\ last_op' = <<"new", None, 0>>
    /\ UNCHANGED <<starting_urls, max_depth, max_pages, concurrency, cache_ttl_hours>>
    /\ UNCHANGED <<scopeVars, storeVars, envVars, linkVars, callVars, taskVars>>

\* the same settings again
NewCrawl == NewCrawlWith(extraction_rules, ai_parsing)

-----------------------------------------------------------------------------
(* The extraction pass and a change of the crawl settings.                 *)

\* do_extraction(crawler), run when no crawl is in flight
ExtractionPass ==
    /\ dpc \in {"done", "exited"}
    /\ \E px \in {"200", "500", "raise"}, answers \in SUBSET {"a", "b"}, fuel \in Fuels :
          LET r == do_extraction(St(db, blobs, stats, fuel), px, answers)
          IN  /\ db' = r.db
              /\ blobs' = r.blobs
              /\ last_op' = <<"pass_" \o r.status, px, 0>>
    /\ UNCHANGED <<configVars, scopeVars, crawlVars, envVars, fetches, handled, linkVars, callVars, taskVars>>

\* the next crawl runs with other extraction settings
NewSettings ==
    \E rules \in RuleSets, ai \in {"unset", "True"} :
        /\ <<rules, ai>> # <<extraction_rules, ai_parsing>>
        /\ NewCrawlWith(rules, ai)

-----------------------------------------------------------------------------
(* Initial states.                                                         *)

\* a SiteCrawler right after its constructor, over an empty Store
Constructed(seeds, domains, hostname_flag, tld_flag) ==
    /\ starting_urls = seeds
    /\ allow_starting_url_hostname = hostname_flag
    /\ allow_starting_url_tld = tld_flag
    /\ arg_allowed_domains = domains
    /\ allowed_domains = SeedAllowedDomains(seeds, domains, hostname_flag, tld_flag)
    /\ start_time = 0
    /\ lock_file = <<>>
    /\ tpc = [t \in Tasks |-> "none"]
    /\ crawled_urls = {}
    /\ task_queue = <<>>
    /\ unfinished = 0
    /\ wpc = [w \in Workers |-> "none"]
    /\ wtask = [w \in Workers |-> NoTask]
    /\ stats = ZeroStats
    /\ session = "none"
    /\ dpc = "new"
    /\ end_time = -1
    /\ db = [u \in Urls |-> Absent]
    /\ blobs = [u \in Urls |-> NoBlob]
    /\ fetches = ZeroFetches
    /\ handled = {}
    /\ last_op = <<"init", None, 0>>

Init ==
    /\ \E seeds \in {<<"a">>, <<"a", "b">>} : Constructed(seeds, {}, TRUE, FALSE)
    /\ max_depth \in {1, 2}
    /\ max_pages \in {-1, 1}
    /\ concurrency = NumWorkers
    /\ cache_ttl_hours \in {-1, 0}
    /\ extraction_rules = <<>>
    /\ ai_parsing = "unset"
    /\ allowed_regex = <<>>
    /\ denied_regex = global_excludes
    /\ denied_extensions = <<>>
    /\ long_urls = {}
    /\ blob_long_urls = {}
    /\ net_errors = {"TimeoutError"}
    /\ may_exhaust = FALSE
    /\ map_size = InitialMapSize
    /\ autogrow = TRUE
    /\ vl_link = None
    /\ vl_result = <<>>
    /\ op_args = NoCall
    /\ op_result = <<>>

Next ==
    \/ StartCrawl
    \/ \E w \in Workers : WorkerGet(w)
    \/ \E w \in Workers : WorkerFetched(w)
    \/ JoinReturn
    \/ NewCrawl

Spec == Init /\ [][Next]_vars

\* crawls over a Store whose writes can fail: the map can fill up beyond
\* growing, and the blob key of the PDF can be beyond LMDB's key limit
InitStore ==
    /\ Constructed(<<"a">>, {}, TRUE, FALSE)
    /\ max_depth = 2
    /\ max_pages = -1
    /\ concurrency = 1
    /\ cache_ttl_hours = 0
    /\ extraction_rules = <<>>
    /\ ai_parsing = "unset"
    /\ allowed_regex = <<>>
    /\ denied_regex = global_excludes
    /\ denied_extensions = <<>>
    /\ long_urls = {}
    /\ blob_long_urls \in {{}, {"c"}}
    /\ net_errors = {}
    /\ may_exhaust = TRUE
    /\ map_size = InitialMapSize
    /\ autogrow = TRUE
    /\ vl_link = None
    /\ vl_result = <<>>
    /\ op_args = NoCall
    /\ op_result = <<>>

SpecStore == InitStore /\ [][Next]_vars

\* crawls followed by extraction passes, with changing rule lists
InitExtract ==
    /\ Constructed(<<"a", "c">>, {}, TRUE, FALSE)
    /\ max_depth = 1
    /\ max_pages = -1
    /\ concurrency = 1
    /\ cache_ttl_hours = 0
    /\ extraction_rules \in RuleSets
    /\ ai_parsing \in {"unset", "True"}
    /\ allowed_regex = <<>>
    /\ denied_regex = global_excludes
    /\ denied_extensions = <<>>
    /\ long_urls = {}
    /\ blob_long_urls = {}
    /\ net_errors = {}
    /\ may_exhaust = FALSE
    /\ map_size = InitialMapSize
    /\ autogrow = TRUE
    /\ vl_link = None
    /\ vl_result = <<>>
    /\ op_args = NoCall
    /\ op_result = <<>>

NextExtract == Next \/ ExtractionPass \/ NewSettings

SpecExtract == InitExtract /\ [][NextExtract]_vars

-----------------------------------------------------------------------------
(* One crawl under fair scheduling: every worker that can take a message   *)
(* eventually does, every fetch eventually returns, the driver eventually  *)
(* resumes once join() can return.                                         *)

InitLive ==
    /\ \E seeds \in {<<"a">>, <<"b", "a">>} : Constructed(seeds, {}, TRUE, FALSE)
    /\ max_depth = 2
    /\ max_pages \in {-1, 1}
    /\ concurrency \in 1..NumWorkers
    /\ cache_ttl_hours = -1
    /\ extraction_rules = <<>>
    /\ ai_parsing = "unset"
    /\ allowed_regex = <<>>
    /\ denied_regex = global_excludes
    /\ denied_extensions = <<>>
    /\ long_urls \in {{}, {"b"}}
    /\ blob_long_urls = {}
    /\ net_errors = ErrorKinds
    /\ may_exhaust = FALSE
    /\ map_size = InitialMapSize
    /\ autogrow = TRUE
    /\ vl_link = None
    /\ vl_result = <<>>
    /\ op_args = NoCall
    /\ op_result = <<>>

NextLive ==
    \/ StartCrawl
    \/ \E w \in Workers : WorkerGet(w)
    \/ \E w \in Workers : WorkerFetched(w)
    \/ JoinReturn

SpecLive ==
    /\ InitLive
    /\ [][NextLive]_vars
    /\ WF_vars(StartCrawl)
    /\ \A w \in Workers : WF_vars(WorkerGet(w)) /\ WF_vars(WorkerFetched(w))
    /\ WF_vars(JoinReturn)

-----------------------------------------------------------------------------
(* The scope filter on its own: a crawler is constructed from the settings *)
(* and valid_link is applied to candidate links.                           *)

Candidates ==
    {"html", "htmls", "css", "JS", "mp3", "at", "bare", "sibling", "foreign", "fcss"}

RegexHtmlEnd == Pattern(<<AnyChar, "h", "t", "m", "l">>, TRUE)    \* ".html$"
RegexCssEnd  == Pattern(<<AnyChar, "c", "s", "s">>, TRUE)         \* ".css$"
RegexHtml    == Pattern(<<"h", "t", "m", "l">>, FALSE)            \* "html"

InitLink ==
    /\ \E seeds \in {<<"a">>, <<"root">>},
          domains \in {{}, {"foo.ex.com"}, {"ex.com"}},
          hostname_flag \in BOOLEAN, tld_flag \in BOOLEAN :
            Constructed(seeds, domains, hostname_flag, tld_flag)
    /\ max_depth = 1
    /\ max_pages = -1
    /\ concurrency = 1
    /\ cache_ttl_hours = -1
    /\ extraction_rules = <<>>
    /\ ai_parsing = "unset"
    /\ allowed_regex \in {<<>>, <<RegexHtmlEnd>>}
    /\ \E denied \in {<<>>, <<RegexCssEnd>>, <<RegexHtml>>} :
          denied_regex = denied \o global_excludes
    /\ denied_extensions \in {<<>>, <<<<"m", "p", "3">>>>, <<<<"h", "t", "m", "l">>>>}
    /\ long_urls = {}
    /\ blob_long_urls = {}
    /\ net_errors = {}
    /\ may_exhaust = FALSE
    /\ map_size = InitialMapSize
    /\ autogrow = TRUE
    /\ vl_link \in Candidates
    /\ vl_result = <<>>
    /\ op_args = NoCall
    /\ op_result = <<>>

\* crawler.valid_link(source_url, link)
ValidLinkCall ==
    /\ vl_result = <<>>
    /\ vl_result' = <<valid_link(starting_urls[1], vl_link)>>
    /\ UNCHANGED <<allow_starting_url_hostname, allow_starting_url_tld,
                   arg_allowed_domains, vl_link>>
    /\ UNCHANGED <<configVars, scopeVars, crawlVars, storeVars, envVars, ghostVars,
                   callVars, taskVars>>

\* the next candidate
NextLink ==
    /\ vl_result # <<>>
    /\ vl_link' \in Candidates \ {vl_link}
    /\ vl_result' = <<>>
    /\ UNCHANGED <<allow_starting_url_hostname, allow_starting_url_tld, arg_allowed_domains>>
    /\ UNCHANGED <<configVars, scopeVars, crawlVars, storeVars, envVars, ghostVars,
                   callVars, taskVars>>

NextScope == ValidLinkCall \/ NextLink

SpecLink == InitLink /\ [][NextScope]_vars

-----------------------------------------------------------------------------
(* Properties of one crawl (Spec).                                         *)

\* C1: in one crawl (retry_task is never invoked: its calls are commented
\* out), at most one network fetch is issued with u as the requested URL,
\* for every URL u, whatever the number of workers and the interleaving,
\* even when u was enqueued several times before it was first dequeued.
C1_AtMostOneFetch == \A u \in Urls : fetches[u] <= 1

\* a worker is still waiting for the network's answer for u while another
\* message for u, enqueued by a different page, has just been dequeued and
\* discarded
C1_Witness ==
    \E u \in Urls, w \in Workers :
        /\ fetches[u] = 1
        /\ wpc[w] = "fetching" /\ wtask[w].url = u
        /\ last_op = <<"discard", u, last_op[3]>>
        /\ last_op[3] < max_depth

\* C2: when max_pages > 0 the seen set never holds more than max_pages + 1
\* URLs.
C2_SeenBounded == max_pages > 0 => Cardinality(crawled_urls) <= max_pages + 1

\* the bound is attained, and a further message was refused for it
C2_Witness ==
    /\ max_pages > 0
    /\ Cardinality(crawled_urls) = max_pages + 1
    /\ last_op[1] = "discard"
    /\ last_op[2] \notin crawled_urls
    /\ last_op[3] < max_depth

\* C3: no message with depth >= max_depth is fetched, handed to Output or
\* logged as an error (every message a worker claims, and every step that
\* fetches or writes, is for a depth below max_depth), and the step that
\* takes such a message off the queue discards it: the seen set, the Store,
\* the counters and the fetches stay as they were.
C3_NoWorkAtMaxDepth ==
    /\ [](/\ \A m \in handled : m[2] < max_depth
          /\ last_op[1] \in {"fetch", "stored", "fetched"} => last_op[3] < max_depth)
    /\ [][ (/\ dpc = "joining" /\ dpc' = "joining"
            /\ task_queue # <<>>
            /\ Head(task_queue).depth >= max_depth
            /\ ~ (/\ Len(task_queue') >= Len(task_queue)
                  /\ SubSeq(task_queue', 1, Len(task_queue)) = task_queue))
           => /\ last_op' = <<"discard", Head(task_queue).url, Head(task_queue).depth>>
              /\ task_queue' = Tail(task_queue)
              /\ UNCHANGED <<crawled_urls, db, blobs, stats, fetches, handled>> ]_vars

\* a message at depth max_depth was dequeued
C3_Witness ==
    /\ last_op[1] = "discard"
    /\ last_op[3] >= max_depth
    /\ \E u \in Urls : db[u].type = "content"

-----------------------------------------------------------------------------
(* Properties of the Store.                                                *)

IsBinaryContent(r) == r.type = "content" /\ r.content_type # "text/html"

\* C4: in every reachable Store state every content record with a non-HTML
\* content_type has a blob at key^bytes, and every blob key K^bytes has a
\* sibling record at K with type=content and a non-HTML content_type.
C4_BlobInvariant ==
    \A k \in Urls :
        /\ IsBinaryContent(db[k]) => blobs[k] # NoBlob
        /\ blobs[k] # NoBlob => IsBinaryContent(db[k])

\* C5: a fetch result is written as one step: in no reachable state (the
\* states after a failed or fatal second write included) is the record at K
\* that of a binary fetch result while the blob at K^bytes is absent or is
\* the one written for an earlier result.
C5_AtomicReplace ==
    \A k \in Urls :
        IsBinaryContent(db[k]) =>
            /\ blobs[k] # NoBlob
            /\ blobs[k].of = <<db[k].crawled, db[k].server_last_modified>>

-----------------------------------------------------------------------------
(* Termination (SpecLive).                                                 *)

\* C6: with fair scheduling and every fetch eventually answered, every crawl
\* eventually completes, whatever the outcome of each fetch: the queue is
\* drained, every dispatched task is marked done, join() has returned and
\* the workers are cancelled.
C6_CrawlCompletes ==
    <>(/\ dpc = "done"
       /\ task_queue = <<>>
       /\ unfinished = 0
       /\ \A w \in Workers : wpc[w] \notin {"idle", "fetching"})

-----------------------------------------------------------------------------
(* Properties of the extraction pass (SpecExtract).                        *)

HasFields(r, rules) == FieldNames(rules) \subseteq DOMAIN r.fields

\* the last step was a call of do_extraction over a non-empty rule list in
\* which the external binary-text extractor did not fail
PassRan ==
    /\ last_op[1] \in {"pass_ok", "pass_raised"}
    /\ last_op[2] # "raise"
    /\ Len(extraction_rules) > 0

\* C7: after an extraction pass run with the rule-set whose fingerprint is H,
\* every content record of the Store, HTML or binary, has parsed_hash = H and
\* defines every field_name of the rule-set.
C7_PassCoversStore ==
    PassRan =>
        \A k \in Urls :
            db[k].type = "content" =>
                /\ db[k].parsed_hash = <<compute_hash(extraction_rules)>>
                /\ HasFields(db[k], extraction_rules)

-----------------------------------------------------------------------------
(* Properties of the scope filter (SpecLink).                              *)

InAllowSet(link) ==
    parse_tld(link)[1] \in allowed_domains \/ parse_tld(link)[2] \in allowed_domains

ContainsAt(link) == "@" \in {Text(link)[i] : i \in 1..Len(Text(link))}

AllowMatch(link) ==
    \E i \in 1..Len(allowed_regex) : findall(allowed_regex[i], Text(link)) # {}

DenyMatch(link) ==
    \E i \in 1..Len(denied_regex) : findall(denied_regex[i], Text(link)) # {}

DeniedExtension(link) ==
    \E i \in 1..Len(denied_extensions) : endswith(Text(link), denied_extensions[i])

Accepted == vl_result = <<TRUE>>
Rejected == vl_result = <<FALSE>>

HostOf(url) == <<UrlTable[url].sub, UrlTable[url].domain, UrlTable[url].suffix>>
RegisteredDomainOf(url) == <<UrlTable[url].domain, UrlTable[url].suffix>>

Seeds == {starting_urls[i] : i \in 1..Len(starting_urls)}

\* listed in the allowed_domains argument, by hostname or by registered domain
Listed(link) ==
    parse_tld(link)[1] \in arg_allowed_domains \/ parse_tld(link)[2] \in arg_allowed_domains

SeedHost(link) == \E s \in Seeds : HostOf(s) = HostOf(link)
SeedDomain(link) == \E s \in Seeds : RegisteredDomainOf(s) = RegisteredDomainOf(link)

\* the other steps of valid_link let the link pass
Plain(link) ==
    ~ ContainsAt(link) /\ ~ DenyMatch(link) /\ ~ DeniedExtension(link)

\* C10: the allow-set gains each seed's hostname iff
\* allow_starting_url_hostname is set and its registered domain iff
\* allow_starting_url_tld is set, independently.  For a link the other steps
\* let pass: with hostname only, exactly the seed hosts are accepted (sibling
\* subdomains and the bare registered domain are rejected); with registered
\* domain only, exactly the hosts under a seed's registered domain; with
\* neither flag, exactly the links whose hostname or registered domain is
\* listed in allowed_domains; a link of a foreign domain that is not listed
\* is rejected whatever the flags.
C10_SeedFlags ==
    /\ \A s \in Seeds :
          /\ allow_starting_url_hostname => parse_tld(s)[1] \in allowed_domains
          /\ allow_starting_url_tld => parse_tld(s)[2] \in allowed_domains
          /\ (~ allow_starting_url_hostname /\ parse_tld(s)[1] \notin arg_allowed_domains)
                => parse_tld(s)[1] \notin allowed_domains
          /\ (~ allow_starting_url_tld /\ parse_tld(s)[2] \notin arg_allowed_domains)
                => parse_tld(s)[2] \notin allowed_domains
    /\ arg_allowed_domains \subseteq allowed_domains
    /\ (vl_result # <<>> /\ Plain(vl_link)) =>
          /\ Accepted <=> \/ Listed(vl_link)
                          \/ allow_starting_url_hostname /\ SeedHost(vl_link)
                          \/ allow_starting_url_tld /\ SeedDomain(vl_link)
          /\ (allow_starting_url_hostname /\ ~ allow_starting_url_tld
                /\ arg_allowed_domains = {})
                => (Accepted <=> SeedHost(vl_link))
          /\ (allow_starting_url_tld /\ ~ allow_starting_url_hostname
                /\ arg_allowed_domains = {})
                => (Accepted <=> SeedDomain(vl_link))
          /\ (~ allow_starting_url_hostname /\ ~ allow_starting_url_tld)
                => (Accepted <=> Listed(vl_link))
          /\ (~ SeedDomain(vl_link) /\ ~ Listed(vl_link)) => Rejected

\* with the hostname flag only, a link to another host of the seed's
\* registered domain was rejected
C10_Witness ==
    /\ allow_starting_url_hostname /\ ~ allow_starting_url_tld
    /\ arg_allowed_domains = {}
    /\ Plain(vl_link)
    /\ SeedDomain(vl_link) /\ ~ SeedHost(vl_link)
    /\ Rejected

-----------------------------------------------------------------------------
(* do_extract on its own (SpecRules): a page and a rule list are chosen,   *)
(* do_extract is applied.                                                  *)

Pages == {<<"html", "a">>, <<"html", "b">>, <<"html", "x">>, <<"N/A">>}

RegexNoMatch == "<animals>(.*?)</animals>"

\* the rules a list is made of: every way of filling css, regex, attribute,
\* fixed_value and default_value from a few values, for two field names
Rules ==
    {ExtractionRule(f, css, None, attribute, None, default) :
        f \in {"title", "desc"}, css \in {"title", "img", "bar"},
        attribute \in {None, "alt"}, default \in {None, "n/a"}}
    \cup {ExtractionRule(f, None, regex, None, None, default) :
        f \in {"title", "desc"}, regex \in {"<animal>(.*?)</animal>", RegexNoMatch},
        default \in {None, "n/a"}}
    \cup {ExtractionRule(f, None, None, None, fixed, default) :
        f \in {"title", "desc"}, fixed \in {None, "ex"}, default \in {None, "n/a"}}

RuleLists == {<<r>> : r \in Rules} \cup {<<r1, r2>> : r1 \in Rules, r2 \in Rules}

InitRules ==
    /\ Constructed(<<"a">>, {}, TRUE, FALSE)
    /\ max_depth = 1
    /\ max_pages = -1
    /\ concurrency = 1
    /\ cache_ttl_hours = -1
    /\ extraction_rules = <<>>
    /\ ai_parsing = "unset"
    /\ allowed_regex = <<>>
    /\ denied_regex = global_excludes
    /\ denied_extensions = <<>>
    /\ long_urls = {}
    /\ blob_long_urls = {}
    /\ net_errors = {}
    /\ may_exhaust = FALSE
    /\ map_size = InitialMapSize
    /\ autogrow = TRUE
    /\ vl_link = None
    /\ vl_result = <<>>
    /\ \E content \in Pages, rules \in RuleLists :
          op_args = [op |-> "do_extract", content |-> content, rules |-> rules]
    /\ op_result = <<>>

\* do_extract(content, rules)
DoExtractCall ==
    /\ op_args.op = "do_extract"
    /\ op_result = <<>>
    /\ op_result' = <<do_extract(op_args.content, op_args.rules)>>
    /\ UNCHANGED <<op_args, configVars, scopeVars, crawlVars, storeVars, envVars,
                   ghostVars, linkVars, taskVars>>

\* the same rule list on another page
NextPage ==
    /\ op_args.op = "do_extract"
    /\ op_result # <<>>
    /\ \E content \in Pages \ {op_args.content} :
          op_args' = [op_args EXCEPT !.content = content]
    /\ op_result' = <<>>
    /\ UNCHANGED <<configVars, scopeVars, crawlVars, storeVars, envVars, ghostVars,
                   linkVars, taskVars>>

NextRules == DoExtractCall \/ NextPage

SpecRules == InitRules /\ [][NextRules]_vars

-----------------------------------------------------------------------------
(* C11, C12: the value do_extract gives a field                            *)

CallDone == op_args.op = "do_extract" /\ op_result # <<>>

\* rule i is the last rule of the list that names its field
LastOfField(rules, i) ==
    \A j \in (i + 1)..Len(rules) : rules[j].field_name # rules[i].field_name

\* what the rules before rule i leave in the result
Prior(content, rules, i) == do_extract(content, SubSeq(rules, 1, i - 1)).result

\* some CSS rule of the list names an attribute that one of its matching
\* nodes lacks, or carries without a value
AttributeMissing(content, rules) ==
    \E j \in 1..Len(rules) :
        /\ Truthy(rules[j].css)
        /\ \E n \in 1..Len(CssNodes(content, rules[j].css)) :
              ExtractContentRaises(CssNodes(content, rules[j].css)[n], rules[j])

\* C11: for every CSS rule (the last one of its field), do_extract returns a
\* result whose field is fixed by the number of matching nodes: none gives the
\* rule's default_value if it has one and "" otherwise, one gives a str, two
\* or more give a list with one entry per node in document order.
C11_CssValueByMatchCount ==
    CallDone =>
        LET content == op_args.content
            rules   == op_args.rules
            out     == op_result[1]
        IN  \A i \in 1..Len(rules) :
              (Truthy(rules[i].css) /\ LastOfField(rules, i)) =>
                LET r     == rules[i]
                    nodes == CssNodes(content, r.css)
                IN  /\ ~ out.raised
                    /\ r.field_name \in DOMAIN out.result
                    /\ Len(nodes) = 0 =>
                          out.result[r.field_name] =
                             (IF r.default_value # None THEN Scalar(r.default_value)
                              ELSE Scalar(""))
                    /\ Len(nodes) = 1 => out.result[r.field_name].kind = "str"
                    /\ Len(nodes) > 1 =>
                          /\ out.result[r.field_name].kind = "list"
                          /\ Len(out.result[r.field_name].v) = Len(nodes)
                          /\ \A n \in 1..Len(nodes) :
                                out.result[r.field_name].v[n] = _extract_content(nodes[n], r)

-----------------------------------------------------------------------------
(* C13: is_cached_url                                                      *)

-----------------------------------------------------------------------------
(* C14: a failing fetch (SpecLive)                                         *)

\* the failing answers of the network for url, and the tag of each
Failures(url) == {r \in Responses(url, ErrorKinds) : r.kind # "ok"}

TagOf(resp) ==
    CASE resp.kind = "TooManyRedirects" -> "too_many_redirects"
      [] resp.kind = "ClientPayloadError" -> "invalid_encoding"
      [] resp.kind = "TimeoutError" -> "timeout"
      [] resp.kind = "ClientConnectionError" -> "connection_error"
      [] resp.kind = "ClientResponseError" -> (IF resp.status >= 500 THEN "500" ELSE "404")
      [] OTHER -> "exception"

\* worker w takes the step of WorkerFetched for the answer resp
FetchedStep(w, resp) ==
    /\ dpc = "joining"
    /\ wpc[w] = "fetching"
    /\ \E fuel \in Fuels :
          Finish(w, wtask[w], task_queue, crawled_urls,
                 FromNetwork(St(db, blobs, stats, fuel), crawled_urls, wtask[w], resp),
                 "fetched", fetches, handled)

\* C14: every step in which a worker handles a failing answer writes one
\* error record, at the requested URL and with the outcome's tag, adds one to
\* that tag's counter and to no other, and leaves the worker ready for the
\* next message.
C14_FailureLoggedOnce ==
    [][\A w \in Workers : \A resp \in Failures(wtask[w].url) :
          FetchedStep(w, resp) =>
             /\ db' = [db EXCEPT ![wtask[w].url] =
                          [type |-> "error", error_code |-> TagOf(resp),
                           _content |-> "error_message"]]
             /\ stats' = Inc(stats, TagOf(resp))
             /\ wpc'[w] = "idle"]_vars

-----------------------------------------------------------------------------
(* The Store on its own (SpecCollection): the writes the crawler makes,    *)
(* each followed by a read of the key.                                     *)

Keys == {"a", "c"}

Call(op, key, content, lm, crawled, prior, returned) ==
    [op |-> op, key |-> key, content |-> content, lm |-> lm, crawled |-> crawled,
     prior |-> prior, returned |-> returned]

\* time.time() at a write: of an earlier crawler (not after start_time) or
\* of this one
Stamps == {start_time, Now}

\* a write: the Store after it, and the call as op_args remembers it
Write(op, key, content, lm, crawled, st) ==
    /\ op_args.op \in {"none", "getitem", "output"}
    /\ db' = st.db
    /\ blobs' = st.blobs
    /\ op_args' = Call(op, key, content, lm, crawled, db[key].type, st.status = "ok")
    /\ op_result' = <<>>
    /\ UNCHANGED <<configVars, scopeVars, crawlVars, envVars, ghostVars, linkVars, taskVars>>

Fresh == St(db, blobs, ZeroStats, -1)

\* collection.add_html(url, content, type="content", parsed_hash="", ...)
AddHtmlCall ==
    \E key \in Keys, page \in {"a", "b"}, lm \in LastModifieds, crawled \in Stamps :
        Write("add_html", key, Body("text/html", page), lm, crawled,
              add_html(Fresh, key, Body("text/html", page), crawled, lm))

\* collection.add_binary(url, content, content_type, type="content", ...)
AddBinaryCall ==
    \E key \in Keys, lm \in LastModifieds :
        Write("add_binary", key, Body("application/pdf", key), lm, Now,
              add_binary(Fresh, key, Body("application/pdf", key), "application/pdf",
                         Now, lm))

\* collection.add(url, error_message, type="error", error_code=...)
AddErrorCall ==
    \E key \in Keys :
        Write("add", key, "error_message", None, Now, log_error_url(Fresh, key, "timeout"))

\* collection.add(source_url, None, type="redirect", redirected_url=...)
AddRedirectCall ==
    \E key \in Keys :
        Write("add", key, None, None, Now, save_redirect(Fresh, key, "x"))

\* SiteCrawler.output(content_type, url, links, content, response_headers)
\* on the Store as it is; counted is what it adds to new_or_updated
OutputCall ==
    /\ op_args.op \in {"none", "getitem", "output"}
    /\ \E key \in Keys, content_type \in {"text/html", "application/pdf"},
          lm \in LastModifieds :
          LET st == output(Fresh, content_type, key, Body(content_type, "b"), lm)
          IN  /\ db' = st.db
              /\ blobs' = st.blobs
              /\ op_args' = [op |-> "output", key |-> key, content_type |-> content_type,
                             content |-> Body(content_type, "b"), lm |-> lm,
                             before |-> db[key], status |-> st.status,
                             counted |-> st.stats["new_or_updated"]]
    /\ op_result' = <<>>
    /\ UNCHANGED <<configVars, scopeVars, crawlVars, envVars, ghostVars, linkVars, taskVars>>

\* collection[key], after a write of that key
GetItemCall ==
    /\ op_args.op \in {"add_html", "add_binary", "add"}
    /\ op_args' = [op |-> "getitem", after |-> op_args]
    /\ op_result' = <<getitem(db, op_args.key)>>
    /\ UNCHANGED <<configVars, scopeVars, crawlVars, storeVars, envVars, ghostVars,
                   linkVars, taskVars>>

InitCollection ==
    /\ Constructed(<<"a">>, {}, TRUE, FALSE)
    /\ max_depth = 1
    /\ max_pages = -1
    /\ concurrency = 1
    /\ cache_ttl_hours \in {-1, 0}
    /\ extraction_rules = <<>>
    /\ ai_parsing = "unset"
    /\ allowed_regex = <<>>
    /\ denied_regex = global_excludes
    /\ denied_extensions = <<>>
    /\ long_urls \in {{}, {"c"}}
    /\ blob_long_urls = {}
    /\ net_errors = {}
    /\ may_exhaust = FALSE
    /\ map_size = InitialMapSize
    /\ autogrow = TRUE
    /\ vl_link = None
    /\ vl_result = <<>>
    /\ op_args = NoCall
    /\ op_result = <<>>

NextCollection ==
    \/ AddHtmlCall \/ AddBinaryCall \/ AddErrorCall \/ AddRedirectCall
    \/ OutputCall \/ GetItemCall

SpecCollection == InitCollection /\ [][NextCollection]_vars

-----------------------------------------------------------------------------
(* C15: add_html, then the record read back                                *)

-----------------------------------------------------------------------------
(* start_crawl tasks of one crawl name, each in its own process            *)
(* (SpecLock).  The crawl itself is one step here.                         *)

OtherVars == <<configVars, scopeVars, crawlVars, storeVars, envVars, ghostVars,
               linkVars, callVars>>

\* start_crawl.delay(data), main.py:23
TaskSubmit(t) ==
    /\ tpc[t] \in {"none", "done", "failed"}
    /\ tpc' = [tpc EXCEPT ![t] = "start"]
    /\ UNCHANGED <<lock_file, OtherVars>>

\* file_lock, lines 20-22: os.path.exists(lock_file), FileExistsError if so
TaskCheck(t) ==
    /\ tpc[t] = "start"
    /\ tpc' = [tpc EXCEPT ![t] = IF lock_file # <<>> THEN "failed" ELSE "checked"]
    /\ UNCHANGED <<lock_file, OtherVars>>

\* file_lock, lines 24-26: open(lock_file, 'w').write(pid), which creates the
\* file or truncates the one that is there; then the body of the with
\* statement starts
TaskCreate(t) ==
    /\ tpc[t] = "checked"
    /\ lock_file' = <<t>>
    /\ tpc' = [tpc EXCEPT ![t] = "crawling"]
    /\ UNCHANGED OtherVars

\* start_crawl, lines 40-46, returned or raised; file_lock, lines 27-28:
\* os.remove(lock_file), FileNotFoundError when the file is gone
TaskFinish(t) ==
    /\ tpc[t] = "crawling"
    /\ lock_file' = <<>>
    /\ tpc' = [tpc EXCEPT ![t] = "done"]
    /\ UNCHANGED OtherVars

InitLock ==
    /\ Constructed(<<"a">>, {}, TRUE, FALSE)
    /\ max_depth = 1
    /\ max_pages = -1
    /\ concurrency = 1
    /\ cache_ttl_hours = -1
    /\ extraction_rules = <<>>
    /\ ai_parsing = "unset"
    /\ allowed_regex = <<>>
    /\ denied_regex = global_excludes
    /\ denied_extensions = <<>>
    /\ long_urls = {}
    /\ blob_long_urls = {}
    /\ net_errors = {}
    /\ may_exhaust = FALSE
    /\ map_size = InitialMapSize
    /\ autogrow = TRUE
    /\ vl_link = None
    /\ vl_result = <<>>
    /\ op_args = NoCall
    /\ op_result = <<>>

NextLock ==
    \E t \in Tasks : TaskSubmit(t) \/ TaskCheck(t) \/ TaskCreate(t) \/ TaskFinish(t)

SpecLock == InitLock /\ [][NextLock]_vars

-----------------------------------------------------------------------------
(* C16: one crawl per name                                                 *)

\* C16: in every state at most one task is inside the with statement (its
\* crawl in flight), and a task that is there holds the lock: the lock file
\* exists and carries its pid.
C16_OneCrawlPerName ==
    /\ Cardinality({t \in Tasks : tpc[t] = "crawling"}) <= 1
    /\ \A t \in Tasks : tpc[t] = "crawling" => lock_file = <<t>>

-----------------------------------------------------------------------------
(* A crawl whose driver may be cancelled (SpecCancel).                     *)

\* CancelledError is raised into crawl() at "await self.task_queue.join()",
\* line 246; crawl() has no try/finally, lines 248-254 do not run
CancelDriver ==
    /\ dpc = "joining"
    /\ dpc' = "cancelled"
    /\ end_time' = end_time
    /\ last_op' = <<"cancel", None, 0>>
    /\ UNCHANGED <<crawled_urls, task_queue, unfinished, wpc, wtask, stats, session,
                   fetches, handled>>
    /\ UNCHANGED <<configVars, scopeVars, storeVars, envVars, linkVars, callVars, taskVars>>

\* asyncio.run(crawler.get_results()): once the main task has ended, the
\* runner cancels the tasks still pending and closes the loop
RunnerTeardown ==
    /\ dpc = "cancelled"
    /\ wpc' = [w \in Workers |-> IF wpc[w] \in {"idle", "fetching"} THEN "cancelled"
                                 ELSE wpc[w]]
    /\ dpc' = "aborted"
    /\ end_time' = end_time
    /\ last_op' = <<"teardown", None, 0>>
    /\ UNCHANGED <<crawled_urls, task_queue, unfinished, wtask, stats, session,
                   fetches, handled>>
    /\ UNCHANGED <<configVars, scopeVars, storeVars, envVars, linkVars, callVars, taskVars>>

NextCancel == Next \/ CancelDriver \/ RunnerTeardown

SpecCancel == Init /\ [][NextCancel]_vars

-----------------------------------------------------------------------------
(* C17: what a cancelled crawl leaves behind                               *)

\* C17: once crawl() has ended and its runner is through, whether crawl()
\* returned or was cancelled at join(), no worker is still pending and the
\* HTTP session is not open.
C17_ReleasedOnEveryExit ==
    dpc \in {"done", "aborted"} =>
        /\ \A w \in Workers : wpc[w] \notin {"idle", "fetching"}
        /\ session # "open"

-----------------------------------------------------------------------------
(* C18: a crawl of depth 1                                                 *)

\* C18: with max_depth = 1, in every state of a crawl only seeds have been
\* requested, claimed (put in the seen set) or handled, only seeds are being
\* fetched, and the queue holds seeds at depth 0 and links at depth 1; the
\* step that takes a depth-1 message off the queue discards it.
C18_OnlySeedsRequested ==
    /\ [](max_depth = 1 =>
            /\ \A u \in Urls : fetches[u] > 0 => u \in Seeds
            /\ crawled_urls \subseteq Seeds
            /\ \A m \in handled : m[1] \in Seeds /\ m[2] = 0
            /\ \A w \in Workers :
                  wpc[w] = "fetching" => wtask[w].url \in Seeds /\ wtask[w].depth = 0
            /\ \A i \in 1..Len(task_queue) :
                  /\ task_queue[i].depth \in {0, 1}
                  /\ task_queue[i].depth = 0 => task_queue[i].url \in Seeds)
    /\ [][ (/\ max_depth = 1
            /\ dpc = "joining" /\ dpc' = "joining"
            /\ task_queue # <<>>
            /\ Head(task_queue).depth = 1
            /\ ~ (/\ Len(task_queue') >= Len(task_queue)
                  /\ SubSeq(task_queue', 1, Len(task_queue)) = task_queue))
           => /\ last_op' = <<"discard", Head(task_queue).url, 1>>
              /\ UNCHANGED <<crawled_urls, fetches, handled, db, blobs>> ]_vars

\* a link of a seed page, not itself a seed, was enqueued at depth 1 and
\* discarded; the crawl went on to its end without requesting it
C18_Witness ==
    /\ max_depth = 1
    /\ dpc = "done"
    /\ \E u \in Urls \ Seeds :
          /\ \E s \in Seeds : u \in Hrefs(s) /\ fetches[s] > 0
          /\ fetches[u] = 0
          /\ u \notin crawled_urls
    /\ \E s \in Seeds : db[s].type = "content"

-----------------------------------------------------------------------------
(* C19: the accounting of the queue                                        *)

Processing == {w \in Workers : wpc[w] = "fetching"}

\* C19: in every state the number of unfinished tasks of the queue is the
\* number of queued messages plus the number of messages a worker is
\* processing; every step that ends the handling of a message (a discard, a
\* success, an ignored outcome, a logged error, an exception that ends the
\* worker) takes exactly one from the unfinished tasks, next to one added per
\* message it enqueues, and the step that hands a message to the network
\* takes none.
C19_UnfinishedAccounting ==
    /\ [](unfinished = Len(task_queue) + Cardinality(Processing))
    /\ [][ (dpc = "joining" /\ dpc' = "joining") =>
             LET enqueued == Len(task_queue') - Len(task_queue)
             IN  /\ last_op'[1] \in {"discard", "stored"} =>
                       unfinished' = unfinished + (enqueued + 1) - 1
                 /\ last_op'[1] = "fetched" => unfinished' = unfinished + enqueued - 1
                 /\ last_op'[1] = "fetch" => unfinished' = unfinished /\ enqueued = -1 ]_vars

\* error logging raised and ended a worker; its message was marked done,
\* the message the other worker is processing is the one unfinished task
C19_Witness ==
    /\ \E w \in Workers : wpc[w] = "ended"
    /\ Processing # {}
    /\ last_op[1] = "fetched"
    /\ unfinished = 1

-----------------------------------------------------------------------------
(* C20: a redirect to a URL already seen                                   *)

\* the answers that redirect url to a final URL of the seen set
RedirectsToSeen(url) ==
    {r \in Responses(url, net_errors) :
        r.kind = "ok" /\ r.actual_url # url /\ r.actual_url \in crawled_urls}

\* C20: a step in which a worker receives, for its URL u, the answer of a
\* final URL f # u that is in the seen set ends as already-fetched: nothing
\* is written to the Store, no counter moves and no link is enqueued.
C20_RedirectToSeenIgnored ==
    [][\A w \in Workers : \A resp \in RedirectsToSeen(wtask[w].url) :
          FetchedStep(w, resp) =>
             /\ UNCHANGED <<db, blobs, stats>>
             /\ task_queue' = task_queue]_vars

-----------------------------------------------------------------------------
(* C21: what Output writes and counts (SpecCollection)                     *)

OutputDone == op_args.op = "output"

\* the record Output writes: stamped with the time of the call
Written(rec) ==
    /\ rec.type = "content"
    /\ rec.content_type = op_args.content_type
    /\ rec.server_last_modified = op_args.lm
    /\ rec.crawled = Now
    /\ rec.parsed_hash = <<>>

-----------------------------------------------------------------------------
(* C22: a request answered through a redirect record                       *)

\* a worker takes the message at the head of the queue, whose URL has a
\* redirect record, and does not discard it
RedirectHitStep ==
    /\ dpc = "joining" /\ dpc' = "joining"
    /\ task_queue # <<>>
    /\ is_redirected_url(db, Head(task_queue).url)
    /\ last_op' \in {<<op, Head(task_queue).url, Head(task_queue).depth>> :
                       op \in {"stored", "fetch"}}
    /\ task_queue # task_queue' \/ crawled_urls # crawled_urls'

\* C22: a request for a URL with a redirect record goes to no network fetch,
\* is counted under total and cached_redirects only, and is answered with the
\* content record stored at the redirect target: the request does not end as
\* an error and the redirect record stays.
C22_RedirectHitServed ==
    [][RedirectHitStep =>
         LET url == Head(task_queue).url
         IN  /\ last_op'[1] = "stored"
             /\ fetches' = fetches
             /\ \A w \in Workers : wpc'[w] = wpc[w]
             /\ stats'["total"] = stats["total"] + 1
             /\ stats'["cached_redirects"] = stats["cached_redirects"] + 1
             /\ stats'["fetched"] = stats["fetched"]
             /\ stats'["cached"] = stats["cached"]
             /\ db[get_redirected_url(db, url)].type = "content"
             /\ stats'["exception"] = stats["exception"]
             /\ db'[url] = db[url] ]_vars

-----------------------------------------------------------------------------
(* Crawls of a site that has a URL with a percent-escape (SpecEscaped).    *)

InitEscaped ==
    /\ \E seeds \in {<<"p">>, <<"b", "p">>} : Constructed(seeds, {}, TRUE, FALSE)
    /\ max_depth = 1
    /\ max_pages = -1
    /\ concurrency \in 1..NumWorkers
    /\ cache_ttl_hours \in {-1, 0}
    /\ extraction_rules = <<>>
    /\ ai_parsing = "unset"
    /\ allowed_regex = <<>>
    /\ denied_regex = global_excludes
    /\ denied_extensions = <<>>
    /\ long_urls = {}
    /\ blob_long_urls = {}
    /\ net_errors = {"TimeoutError"}
    /\ may_exhaust = FALSE
    /\ map_size = InitialMapSize
    /\ autogrow = TRUE
    /\ vl_link = None
    /\ vl_result = <<>>
    /\ op_args = NoCall
    /\ op_result = <<>>

SpecEscaped == InitEscaped /\ [][Next]_vars

-----------------------------------------------------------------------------
(* C23: the records of a fetch that was, or was not, redirected            *)

\* the answer to a request that ended at the final URL f with a page or a
\* document
Success(f, lm) == Response("ok", ServedType(f), human_repr(f), lm, 200)

\* C23: after a step in which a worker receives the page of the final URL f
\* for its URL u, the Store has, when f # u, a redirect record at u that
\* points to f and a content record at f, and when f = u, a content record
\* at u and no redirect record written.
C23_RedirectRecorded ==
    [][\A w \in Workers : \A f \in FinalUrls(wtask[w].url), lm \in LastModifieds :
          FetchedStep(w, Success(f, lm)) =>
             LET u == wtask[w].url
             IN  IF f # u
                 THEN /\ db'[u] = [type |-> "redirect", redirected_url |-> f]
                      /\ db'[f].type = "content"
                 ELSE /\ db'[u].type = "content"
                      /\ \A k \in Urls \ {u} : db'[k] = db[k] ]_vars

-----------------------------------------------------------------------------
(* C24: an answer of a content type the crawler does not accept (SpecLive) *)

ErrorTags ==
    {"too_many_redirects", "invalid_encoding", "timeout", "404", "500",
     "connection_error", "exception"}

\* the answer that makes _make_request raise InvalidContentTypeError
Unaccepted(url) == Response("ok", "image/png", url, None, 200)

\* C24: the step in which a worker handles an answer of an unaccepted content
\* type writes nothing to the Store, changes no counter (so no error-tag
\* counter), enqueues no message and leaves the requested URL in crawled_urls;
\* the worker is ready for the next message.  (AlreadyFetchedError is raised
\* by no response: url_object_in is FALSE.)
C24_UnacceptedIsNoError ==
    [][\A w \in Workers :
          FetchedStep(w, Unaccepted(wtask[w].url)) =>
             /\ db' = db
             /\ blobs' = blobs
             /\ \A tag \in ErrorTags : stats'[tag] = stats[tag]
             /\ stats' = stats
             /\ task_queue' = task_queue
             /\ wtask[w].url \in crawled_urls'
             /\ wpc'[w] = "idle"]_vars

\* a fetched URL that left nothing in the Store and no count but "fetched"
C24_Witness ==
    /\ last_op[1] = "fetched"
    /\ db[last_op[2]].type = "absent"
    /\ last_op[2] \in crawled_urls
    /\ last_op[2] \notin long_urls
    /\ stats["fetched"] >= 1
    /\ stats["new_or_updated"] = 0
    /\ \A tag \in ErrorTags : stats[tag] = 0

-----------------------------------------------------------------------------
(* C25: no retry during a crawl (SpecLive)                                 *)

\* C25: while the crawl runs, crawled_urls only grows; a message is claimed
\* (sent to the Store or to the network) only for a URL that was not in
\* crawled_urls, which is in it from then on, and a URL whose fetch ends was
\* and stays in it; every message in the queue, and every message a worker
\* holds, has retry_count = 0.
C25_NoRetry ==
    /\ [](\A i \in 1..Len(task_queue) : task_queue[i].retry_count = 0)
    /\ [](\A w \in Workers : wpc[w] = "fetching" => wtask[w].retry_count = 0)
    /\ [][dpc = "joining" =>
            /\ crawled_urls \subseteq crawled_urls'
            /\ last_op'[1] \in {"fetch", "stored"} =>
                  /\ last_op'[2] \notin crawled_urls
                  /\ last_op'[2] \in crawled_urls'
            /\ last_op'[1] = "fetched" =>
                  /\ last_op'[2] \in crawled_urls
                  /\ crawled_urls' = crawled_urls
                  /\ fetches'[last_op'[2]] = 1]_vars

\* a fetch just failed with a timeout, the outcome whose retry is commented
\* out, while another message waits in the queue
C25_Witness ==
    /\ last_op[1] = "fetched"
    /\ db[last_op[2]].type = "error"
    /\ db[last_op[2]].error_code = "timeout"
    /\ last_op[2] \in crawled_urls
    /\ task_queue # <<>>

-----------------------------------------------------------------------------
(* retry_task (aiocrawler.py:159-168).  worker() holds its two calls in    *)
(* comments, after the timeout and the connection-error clauses; SpecRetry *)
(* is the crawl with those calls made.                                     *)

\* AsyncCrawler.__init__, max_retries: int = 2; no caller passes another
max_retries == 2

\* retry_task without its test of retry_count
retry_task_always(seen, q, task) ==
    [seen  |-> seen \ {task.url},
     queue |-> Append(q, TaskQueueMessage(task.source_url, task.url, task.depth,
                                          task.retry_count + 1))]

\* seen is crawled_urls and q the queue; the result is the two after the call
retry_task(seen, q, task) ==
    IF task.retry_count < max_retries
    THEN [seen  |-> seen \ {task.url},
          queue |-> Append(q, TaskQueueMessage(task.source_url, task.url, task.depth,
                                               task.retry_count + 1))]
    ELSE [seen |-> seen, queue |-> q]

Retried == {"TimeoutError", "ClientConnectionError"}

\* the network failed with resp: the except clause, then retry_task(task),
\* then the finally clause
RetryStep(w, resp) ==
    /\ dpc = "joining"
    /\ wpc[w] = "fetching"
    /\ LET task == wtask[w]
           h == FromNetwork(St(db, blobs, stats, -1), crawled_urls, task, resp)
           r == retry_task(crawled_urls, task_queue, task)
       IN  /\ db' = h.st.db
           /\ blobs' = h.st.blobs
           /\ stats' = h.st.stats
           /\ crawled_urls' = r.seen
           /\ task_queue' = r.queue
           /\ unfinished' = task_done(unfinished + (Len(r.queue) - Len(task_queue)))
           /\ wpc' = [wpc EXCEPT ![w] = "idle"]
           /\ wtask' = [wtask EXCEPT ![w] = NoTask]
           /\ last_op' = <<"retried", task.url, task.depth>>
    /\ UNCHANGED <<session, dpc, end_time, fetches, handled>>
    /\ UNCHANGED <<configVars, scopeVars, envVars, linkVars, callVars, taskVars>>

RetryFetched(w) ==
    \E resp \in {r \in Responses(wtask[w].url, net_errors) : r.kind \in Retried} :
        RetryStep(w, resp)

InitRetry ==
    /\ \E seeds \in {<<"a">>, <<"b", "a">>} : Constructed(seeds, {}, TRUE, FALSE)
    /\ max_depth = 1
    /\ max_pages = -1
    /\ concurrency \in 1..NumWorkers
    /\ cache_ttl_hours = -1
    /\ extraction_rules = <<>>
    /\ ai_parsing = "unset"
    /\ allowed_regex = <<>>
    /\ denied_regex = global_excludes
    /\ denied_extensions = <<>>
    /\ long_urls = {}
    /\ blob_long_urls = {}
    /\ net_errors = Retried
    /\ may_exhaust = FALSE
    /\ map_size = InitialMapSize
    /\ autogrow = TRUE
    /\ vl_link = None
    /\ vl_result = <<>>
    /\ op_args = NoCall
    /\ op_result = <<>>

\* the network answered with a page: WorkerFetched for the answers that are
\* no failure
FetchedOk(w) ==
    /\ dpc = "joining"
    /\ wpc[w] = "fetching"
    /\ \E resp \in {r \in Responses(wtask[w].url, net_errors) : r.kind = "ok"} :
          Finish(w, wtask[w], task_queue, crawled_urls,
                 FromNetwork(St(db, blobs, stats, -1), crawled_urls, wtask[w], resp),
                 "fetched", fetches, handled)
    /\ UNCHANGED <<configVars, scopeVars, envVars, linkVars, callVars, taskVars>>

NextRetry ==
    \/ StartCrawl
    \/ \E w \in Workers : WorkerGet(w)
    \/ \E w \in Workers : FetchedOk(w)
    \/ \E w \in Workers : RetryFetched(w)
    \/ JoinReturn

SpecRetry == InitRetry /\ [][NextRetry]_vars

\* C26: when a worker calls retry_task for its message t, then with
\* t.retry_count < max_retries t.url leaves crawled_urls and one message is
\* appended to the queue, with t's source_url, url and depth and with
\* retry_count + 1, and with t.retry_count >= max_retries crawled_urls and
\* the queue stay as they are; no message, in the queue or held by a worker,
\* ever has a retry_count above max_retries.
C26_RetryBounded ==
    /\ [](\A i \in 1..Len(task_queue) : task_queue[i].retry_count <= max_retries)
    /\ [](\A w \in Workers : wpc[w] = "fetching" => wtask[w].retry_count <= max_retries)
    /\ [][\A w \in Workers : RetryFetched(w) =>
            LET t == wtask[w]
            IN  IF t.retry_count < max_retries
                THEN /\ crawled_urls' = crawled_urls \ {t.url}
                     /\ Len(task_queue') = Len(task_queue) + 1
                     /\ SubSeq(task_queue', 1, Len(task_queue)) = task_queue
                     /\ task_queue'[Len(task_queue')] =
                           [source_url |-> t.source_url, url |-> t.url,
                            depth |-> t.depth, retry_count |-> t.retry_count + 1]
                ELSE /\ crawled_urls' = crawled_urls
                     /\ task_queue' = task_queue]_vars

\* the retries of a URL are used up: its last failure changed nothing, after
\* max_retries + 1 fetches
C26_Witness ==
    /\ last_op[1] = "retried"
    /\ last_op[2] \in crawled_urls
    /\ fetches[last_op[2]] = max_retries + 1
    /\ \A i \in 1..Len(task_queue) : task_queue[i].url # last_op[2]

-----------------------------------------------------------------------------
(* C27: what an extraction pass changes (SpecExtract)                      *)

PassEnded == {"pass_ok", "pass_raised", "pass_exit"}

\* the records a pass over the Store (d, b) would change, whatever the
\* external extractors answer
PassChanges(d, b) ==
    {k \in Urls :
        \E px \in {"200", "500", "raise"}, answers \in SUBSET {"a", "b"}, fuel \in Fuels :
            do_extraction(St(d, b, stats, fuel), px, answers).db[k] # d[k]}

\* a pass changes only content records whose parsed_hash is not the current
\* fingerprint, and no blob
OnlyStaleContentChanged ==
    /\ \A k \in Urls :
          db'[k] # db[k] =>
             /\ db[k].type = "content"
             /\ db[k].parsed_hash # <<compute_hash(extraction_rules)>>
    /\ blobs' = blobs

\* C27: an extraction pass changes only content records whose parsed_hash
\* differs from the current fingerprint (no redirect record, error record,
\* blob or already-extracted record), and a second pass run right after it
\* with the same rule-set changes nothing.
C27_PassIdempotent ==
    [][last_op'[1] \in PassEnded =>
          /\ OnlyStaleContentChanged
          /\ PassChanges(db', blobs') = {}]_vars

\* the same, for the second pass after a pass that returned
C27_ReturnedPassIdempotent ==
    [][last_op'[1] \in PassEnded =>
          /\ OnlyStaleContentChanged
          /\ last_op'[1] = "pass_ok" => PassChanges(db', blobs') = {}]_vars

-----------------------------------------------------------------------------
(* C29: a failing external extractor (SpecExtract)                         *)

\* C29: a pass during which the binary-text extractor fails (it answers 500
\* or the request raises), whatever the article parser answers, returns
\* normally, and every content record is then marked with the current
\* fingerprint.  (ai_parsing is set: the pass does not end at line 473.)
C29_ExtractorFailureTolerated ==
    [][/\ last_op'[1] \in PassEnded
       /\ last_op'[2] \in {"500", "raise"}
       /\ ai_parsing = "True"
       => /\ last_op'[1] = "pass_ok"
          /\ \A k \in Urls :
                db[k].type = "content" =>
                   db'[k].parsed_hash = <<compute_hash(extraction_rules)>>]_vars

-----------------------------------------------------------------------------
(* C28: a rule without css, regex and fixed_value (SpecRules)              *)

\* rule i has none of css, regex and fixed_value
NoSelector(r) == ~ Truthy(r.css) /\ ~ Truthy(r.regex) /\ ~ Truthy(r.fixed_value)

\* rule i is the only rule of the list that names its field
OnlyOfField(rules, i) ==
    \A j \in 1..Len(rules) : j # i => rules[j].field_name # rules[i].field_name

\* C28: when do_extract returns, the field of a rule that has none of css,
\* regex and fixed_value (and that no other rule of the list names) is the
\* rule's default_value if it has one and the empty string otherwise.
C28_NoSelectorDefault ==
    (CallDone /\ ~ op_result[1].raised) =>
        LET rules == op_args.rules
            out   == op_result[1]
        IN  \A i \in 1..Len(rules) :
              (NoSelector(rules[i]) /\ OnlyOfField(rules, i)) =>
                 /\ rules[i].field_name \in DOMAIN out.result
                 /\ out.result[rules[i].field_name] =
                       (IF rules[i].default_value # None
                        THEN Scalar(rules[i].default_value) ELSE Scalar(""))

-----------------------------------------------------------------------------
(* JsonLmdb.__setitem__ with its loop (SpecWrite).  txn.put raises         *)
(* MapFullError while the map is smaller than what the data needs; need is *)
(* that size, in units of the opening size.                                *)

\* "for i in range(12)"
MaxAttempts == 12

Tried(status, attempts, size) == [status |-> status, attempts |-> attempts, map_size |-> size]

\* the loop without "self.map_size = new_map_size"
RECURSIVE setitem_attempts_ungrown(_, _, _, _, _)
setitem_attempts_ungrown(size, need, grow, badkey, i) ==
    IF i > MaxAttempts THEN Tried("exit", MaxAttempts, size)
    ELSE IF badkey THEN Tried("raised", i, size)
    ELSE IF need <= size THEN Tried("ok", i, size)
    ELSE IF ~ grow THEN Tried("raised", i, size)
    ELSE setitem_attempts_ungrown(size, need, grow, badkey, i + 1)

\* lines 56-65 from the i-th attempt on, the map being of size `size`: the
\* attempt returns, raises (a key beyond LMDB's limit, or a full map with
\* autogrow off) or doubles the map and goes round; after the last attempt,
\* exit()
RECURSIVE setitem_attempts(_, _, _, _, _)
setitem_attempts(size, need, grow, badkey, i) ==
    IF i > MaxAttempts THEN Tried("exit", MaxAttempts, size)
    ELSE IF badkey THEN Tried("raised", i, size)
    ELSE IF need <= size THEN Tried("ok", i, size)
    ELSE IF ~ grow THEN Tried("raised", i, size)
    ELSE setitem_attempts(size * 2, need, grow, badkey, i + 1)

\* the sizes a write may need: within the map, within reach of the 11
\* doublings that are followed by an attempt, and beyond
Needs == {1, 2, 3, Pow2(MaxAttempts - 1), Pow2(MaxAttempts - 1) + 1, Pow2(MaxAttempts + 1)}

WrittenValues == {[type |-> "redirect", redirected_url |-> u] : u \in {"a", "b"}}

\* db[key] = value, while the process lives
SetItemCall ==
    /\ IF op_result = <<>> THEN TRUE ELSE op_result[1].status # "exit"
    /\ \E key \in Keys, value \in WrittenValues, need \in Needs :
          LET r == setitem_attempts(map_size, need, autogrow, key \in long_urls, 1)
          IN  /\ db' = IF r.status = "ok"
                       THEN [db EXCEPT ![key] = _post_value(_pre_value(value))]
                       ELSE db
              /\ map_size' = r.map_size
              /\ op_args' = [op |-> "setitem", key |-> key, value |-> value,
                             need |-> need, map_size |-> map_size, before |-> db[key]]
              /\ op_result' = <<r>>
    /\ UNCHANGED <<blobs, long_urls, blob_long_urls, net_errors, may_exhaust, autogrow>>
    /\ UNCHANGED <<configVars, scopeVars, crawlVars, ghostVars, linkVars, taskVars>>

InitWrite ==
    /\ Constructed(<<"a">>, {}, TRUE, FALSE)
    /\ max_depth = 1
    /\ max_pages = -1
    /\ concurrency = 1
    /\ cache_ttl_hours = -1
    /\ extraction_rules = <<>>
    /\ ai_parsing = "unset"
    /\ allowed_regex = <<>>
    /\ denied_regex = global_excludes
    /\ denied_extensions = <<>>
    /\ long_urls \in {{}, {"c"}}
    /\ blob_long_urls = {}
    /\ net_errors = {}
    /\ may_exhaust = TRUE
    /\ map_size = InitialMapSize
    /\ autogrow \in BOOLEAN
    /\ vl_link = None
    /\ vl_result = <<>>
    /\ op_args = NoCall
    /\ op_result = <<>>

SpecWrite == InitWrite /\ [][SetItemCall]_vars

\* C30: a write makes between 1 and 12 attempts.  With autogrow on, the map
\* is doubled after every attempt that found it full; the write returns at
\* the first attempt that fits, and the process exits exactly when none of
\* the 12 fits (the map has then been doubled 12 times).  With autogrow off
\* a full map is raised at the first attempt and the map keeps its size.  A
\* key beyond LMDB's limit is raised at the first attempt.  The write returns
\* normally only with the value stored at the key, and otherwise leaves the
\* key as it was.
C30_WriteAttempts ==
    (op_args.op = "setitem" /\ op_result # <<>>) =>
        LET a == op_args
            r == op_result[1]
            fits(n) == a.need <= a.map_size * Pow2(n)
        IN  /\ r.attempts \in 1..MaxAttempts
            /\ map_size = r.map_size
            /\ a.key \in long_urls =>
                  r.status = "raised" /\ r.attempts = 1 /\ map_size = a.map_size
            /\ (a.key \notin long_urls /\ autogrow) =>
                  /\ r.status \in {"ok", "exit"}
                  /\ r.status = "exit" <=> ~ fits(MaxAttempts - 1)
                  /\ r.status = "exit" =>
                        r.attempts = MaxAttempts /\ map_size = a.map_size * Pow2(MaxAttempts)
                  /\ r.status = "ok" =>
                        /\ map_size = a.map_size * Pow2(r.attempts - 1)
                        /\ fits(r.attempts - 1)
                        /\ r.attempts > 1 => ~ fits(r.attempts - 2)
            /\ (a.key \notin long_urls /\ ~ autogrow) =>
                  /\ r.attempts = 1
                  /\ map_size = a.map_size
                  /\ r.status = (IF fits(0) THEN "ok" ELSE "raised")
            /\ r.status = "ok" => db[a.key] = a.value
            /\ r.status # "ok" => db[a.key] = a.before

\* the process exited after 12 attempts, the map doubled 12 times
C30_Witness ==
    /\ op_args.op = "setitem"
    /\ op_result # <<>>
    /\ op_result[1].status = "exit"
    /\ op_result[1].attempts = MaxAttempts
    /\ map_size = op_args.map_size * Pow2(MaxAttempts)
    /\ db[op_args.key] = op_args.before

-----------------------------------------------------------------------------
(* C31: the HTTP session of a crawl (SpecLive)                             *)

\* the network fetches issued so far in this crawl
RECURSIVE SumOver(_, _)
SumOver(f, S) == IF S = {} THEN 0
                 ELSE LET u == CHOOSE v \in S : TRUE IN f[u] + SumOver(f, S \ {u})

FetchesIssued == SumOver(fetches, Urls)

\* C31: within a crawl (until a new crawler is built) the session goes from none to open to closed and
\* never back, so at most one is created and it is closed at most once; it
\* is created in the step that issues the first network fetch, however many
\* workers are fetching at once; it is closed in the step in which join()
\* has returned (no unfinished task) and the workers are cancelled; and when
\* crawl() has returned it is closed if one was created and absent otherwise.
C31_OneSession ==
    /\ [](session = "none" <=> FetchesIssued = 0)
    /\ [](dpc = "done" => session = (IF FetchesIssued > 0 THEN "closed" ELSE "none"))
    /\ [](session = "closed" => dpc = "done")
    /\ [][/\ (session' # session /\ last_op'[1] # "new") =>
               \/ session = "none" /\ session' = "open" /\ last_op'[1] = "fetch"
                  /\ FetchesIssued = 0
               \/ session = "open" /\ session' = "closed" /\ last_op'[1] = "join"
                  /\ unfinished = 0
                  /\ \A w \in Workers : wpc'[w] \notin {"idle", "fetching"}
          /\ (last_op'[1] = "fetch" /\ session = "open") => session' = "open"]_vars

\* two workers were fetching at once and the crawl has returned
C31_Witness ==
    /\ dpc = "done"
    /\ session = "closed"
    /\ concurrency = NumWorkers
    /\ FetchesIssued >= 2
    /\ \E u \in Urls, v \in Urls :
          /\ u # v
          /\ {<<u, 0>>, <<v, 0>>} \subseteq handled
          /\ fetches[u] = 1 /\ fetches[v] = 1

-----------------------------------------------------------------------------
(* C32: a URL that holds an error record, in a later crawl (SpecRefetch)   *)

InitRefetch ==
    /\ \E seeds \in {<<"b">>, <<"b", "a">>} : Constructed(seeds, {}, TRUE, FALSE)
    /\ max_depth = 1
    /\ max_pages = -1
    /\ concurrency \in 1..NumWorkers
    /\ cache_ttl_hours \in {-1, 0}
    /\ extraction_rules = <<>>
    /\ ai_parsing = "unset"
    /\ allowed_regex = <<>>
    /\ denied_regex = global_excludes
    /\ denied_extensions = <<>>
    /\ long_urls \in {{}, {"c"}}
    /\ blob_long_urls = {}
    /\ net_errors = {"TimeoutError"}
    /\ may_exhaust = FALSE
    /\ map_size = InitialMapSize
    /\ autogrow = TRUE
    /\ vl_link = None
    /\ vl_result = <<>>
    /\ op_args = NoCall
    /\ op_result = <<>>

SpecRefetch == InitRefetch /\ [][Next]_vars

\* a worker claims a message whose URL holds an error record: the request
\* goes to the network
ErrorNotAHit ==
    (last_op'[1] \in {"fetch", "stored"} /\ db[last_op'[2]].type = "error") =>
        /\ last_op'[1] = "fetch"
        /\ fetches'[last_op'[2]] = fetches[last_op'[2]] + 1
        /\ stats' = Inc(Inc(stats, "total"), "fetched")
        /\ db' = db

-----------------------------------------------------------------------------
(* C33: report() (SpecLive)                                                *)

\* datetime.fromtimestamp(t, ...).strftime(...): the text of a timestamp
strftime(t) == "t" \o ToString(t)

\* self.duration: -1, then end_time - start_time (set with end_time)
duration == IF end_time = -1 THEN -1 ELSE end_time - start_time

\* format_duration, lines 180-209, on whole hours
format_duration(seconds) ==
    IF seconds < 1 THEN "less than a second"
    ELSE IF seconds = 1 THEN "1 hour" ELSE ToString(seconds) \o " hours"

\* SiteCrawler.report(), lines 211-220
report ==
    [stats      |-> stats,
     start_time |-> strftime(start_time),
     end_time   |-> IF end_time = -1 THEN "still running" ELSE strftime(end_time),
     duration   |-> format_duration(duration)]

\* C33: report() says "still running" exactly in the states in which crawl()
\* has not come past crawl_completed(), and afterwards gives the text of the
\* time of completion, which is after the start; between any two states of
\* the same crawler no reported counter decreases.
C33_ReportMonotonic ==
    /\ [](report.end_time = "still running" <=> dpc # "done")
    /\ [](dpc = "done" =>
             /\ report.end_time = strftime(Now)
             /\ report.end_time # report.start_time
             /\ unfinished = 0)
    /\ [][last_op'[1] \notin {"new", "exit"} =>
             \A k \in StatKeys : report'.stats[k] >= report.stats[k]]_vars

\* a completed crawl that fetched, stored and logged an error
C33_Witness ==
    /\ dpc = "done"
    /\ report.end_time = strftime(1)
    /\ report.duration = "1 hour"
    /\ report.stats["fetched"] = 2
    /\ report.stats["new_or_updated"] >= 1
    /\ report.stats["timeout"] = 1

-----------------------------------------------------------------------------
(* C34: the URLs a crawl fetches, and the interleaving of its workers      *)
(* (SpecDepth): one crawl of the pages d -> f -> g -> c and e -> g over    *)
(* an empty Store, with no network error.                                  *)

InitDepth ==
    /\ \E seeds \in {<<"e", "d">>, <<"d", "e">>} : Constructed(seeds, {}, TRUE, FALSE)
    /\ max_depth \in {2, 3}
    /\ max_pages = -1
    /\ concurrency \in 1..NumWorkers
    /\ cache_ttl_hours = -1
    /\ extraction_rules = <<>>
    /\ ai_parsing = "unset"
    /\ allowed_regex = <<>>
    /\ denied_regex = global_excludes
    /\ denied_extensions = <<>>
    /\ long_urls = {}
    /\ blob_long_urls = {}
    /\ net_errors = {}
    /\ may_exhaust = FALSE
    /\ map_size = InitialMapSize
    /\ autogrow = TRUE
    /\ vl_link = None
    /\ vl_result = <<>>
    /\ op_args = NoCall
    /\ op_result = <<>>

SpecDepth == InitDepth /\ [][NextLive]_vars

\* the URLs reached from the set S through at most n in-scope link hops
RECURSIVE WithinHops(_, _)
WithinHops(S, n) ==
    IF n = 0 THEN S
    ELSE WithinHops(S \cup UNION {extract_links(u, Body(ServedType(u), u)) : u \in S},
                    n - 1)

\* every request of the crawl was answered with a page that was stored
NoFetchFailed ==
    \A u \in Urls : fetches[u] > 0 => db[u].type = "content"

\* C34: with max_pages unlimited and no fetch failing, when crawl() has
\* returned every URL that a seed reaches through fewer than max_depth
\* in-scope link hops has been fetched, whatever the number of workers and
\* their interleaving.
C34_FetchedSetDeterminate ==
    (dpc = "done" /\ max_pages = -1 /\ NoFetchFailed)
        => \A u \in WithinHops(Seeds, max_depth - 1) : fetches[u] > 0

\* the same with one worker, where the queue is served breadth first
C34_OneWorkerFetchesAll ==
    (dpc = "done" /\ max_pages = -1 /\ NoFetchFailed /\ concurrency = 1)
        => \A u \in WithinHops(Seeds, max_depth - 1) : fetches[u] > 0

-----------------------------------------------------------------------------
(* C35: the keys of the content records and the Scope Filter (SpecScope):  *)
(* crawls of a, of b and of both, with and without .pdf among the denied   *)
(* extensions.                                                             *)

InitScope ==
    /\ \E seeds \in {<<"a">>, <<"b">>, <<"a", "b">>} : Constructed(seeds, {}, TRUE, FALSE)
    /\ max_depth = 2
    /\ max_pages = -1
    /\ concurrency \in 1..NumWorkers
    /\ cache_ttl_hours \in {-1, 0}
    /\ extraction_rules = <<>>
    /\ ai_parsing = "unset"
    /\ allowed_regex = <<>>
    /\ denied_regex = global_excludes
    /\ denied_extensions \in {<<>>, << <<".", "p", "d", "f">> >>}
    /\ long_urls = {}
    /\ blob_long_urls = {}
    /\ net_errors = {}
    /\ may_exhaust = FALSE
    /\ map_size = InitialMapSize
    /\ autogrow = TRUE
    /\ vl_link = None
    /\ vl_result = <<>>
    /\ op_args = NoCall
    /\ op_result = <<>>

SpecScope == InitScope /\ [][Next]_vars

\* the step writes a content record under k
ContentWritten(k) == db'[k] # db[k] /\ db'[k].type = "content"

\* a seed, or a URL the Scope Filter accepts
InScope(u) == u \in Seeds \/ valid_link(None, u)

\* C35: every key under which a crawl writes a content record is a seed URL
\* or a URL accepted by the Scope Filter (so the final URL of a redirect is
\* stored only if it is in scope).
C35_StoredKeysInScope ==
    [][\A k \in Urls : ContentWritten(k) => InScope(k)]_vars

\* C35 as amended: every key under which a crawl writes a content record is
\* the final URL, as the response reports it, of a URL the crawl claimed (in
\* the step that takes its message from the queue, or earlier), and every
\* claimed URL is a seed or accepted by the Scope Filter; the final URL itself
\* is not checked.
C35_StoredKeysFinalOfInScope ==
    /\ [](\A u \in crawled_urls : InScope(u))
    /\ [][\A k \in Urls : ContentWritten(k) =>
             \E u \in crawled_urls \cup {task_queue[i].url : i \in DOMAIN task_queue} :
                 InScope(u) /\ k \in {human_repr(f) : f \in FinalUrls(u)}]_vars

\* the request of the seed b was redirected to c.pdf, which the Scope Filter
\* rejects, and the page is stored under c.pdf
C35_Witness ==
    /\ Seeds = {"b"}
    /\ ~ InScope("c")
    /\ db["b"].type = "redirect"
    /\ db["c"].type = "content"
    /\ fetches["b"] = 1 /\ fetches["c"] = 0

-----------------------------------------------------------------------------
(* C36: what a URL resolved from the Store changes                         *)

\* the step resolved a URL from the Store: a cache hit or a redirect hit
ResolvedFromStore == last_op'[1] = "stored"

\* C36: a URL resolved from the Store (cache hit or redirect hit) leaves the
\* Store unchanged: no record is written, no crawled timestamp is refreshed,
\* new_or_updated is not incremented; only total and cached or
\* cached_redirects change.
C36_HitLeavesStore ==
    [][ResolvedFromStore =>
          /\ db' = db
          /\ blobs' = blobs
          /\ \A k \in StatKeys \ {"total", "cached", "cached_redirects"} :
                stats'[k] = stats[k]
          /\ stats'["total"] = stats["total"] + 1
          /\ stats'["cached"] + stats'["cached_redirects"]
                = stats["cached"] + stats["cached_redirects"] + 1]_vars

\* the part of C36 about cache hits alone
C36_CacheHitLeavesStore ==
    [][(ResolvedFromStore /\ stats'["cached"] # stats["cached"]) =>
          /\ db' = db
          /\ blobs' = blobs
          /\ \A k \in StatKeys \ {"total", "cached"} : stats'[k] = stats[k]]_vars

-----------------------------------------------------------------------------
(* C37: the targets of the redirect records                                *)

\* C37: in every Store state every redirect record at U pointing to T has a
\* content record at T (so a redirect hit on U can load its target and never
\* ends as an "exception" error record over the redirect record at U).
C37_RedirectTargetHasContent ==
    \A u \in Urls :
        db[u].type = "redirect" => db[db[u].redirected_url].type = "content"

-----------------------------------------------------------------------------
(* C38: the counters and the seen set                                      *)

\* C38: in every state reached during a crawl total = cached +
\* cached_redirects + fetched and, retry_task not being invoked, total is the
\* size of the seen set: each claimed URL is counted once, in one class.
C38_TotalIsSeen ==
    dpc \in {"new", "joining", "done"} =>
        /\ stats["total"] = stats["cached"] + stats["cached_redirects"] + stats["fetched"]
        /\ stats["total"] = Cardinality(crawled_urls)

\* a crawl that counted a cache hit, a redirect hit and a fetch
C38_Witness ==
    /\ dpc = "joining"
    /\ stats["cached"] >= 1
    /\ stats["cached_redirects"] >= 1
    /\ stats["fetched"] >= 1
    /\ stats["total"] = 3

-----------------------------------------------------------------------------
(* C39: a content record and the later results for its URL                 *)

\* the record at k is a content record stored by an earlier crawl
StoredEarlier(k) == db[k].type = "content" /\ db[k].crawled <= start_time

\* C39: once a content record is stored at a URL no later crawl over the same
\* Store replaces it by an error record or a redirect record: a failed or
\* redirected re-fetch after cache expiry leaves the stored content, and its
\* blob, in place.
C39_ContentStays ==
    [][\A k \in Urls :
          StoredEarlier(k) =>
              /\ db'[k].type = "content"
              /\ blobs[k] # NoBlob => blobs'[k] # NoBlob]_vars

====
